---- MODULE Spec2Model ----
(***************************************************************************)
(* State-machine model of the fablab entity store (src/database.py):       *)
(* the MongoDB collections with their Add, Set and Remove operations, the  *)
(* usage-session operations startUse/endUse, and the authorization         *)
(* decision isUserAuthroizedForMachine.                                    *)
(*                                                                         *)
(* A collection is modelled by the documents it holds.  users and uses are *)
(* sequences in insertion order, because the code reads them with find_one *)
(* and update_one, which act on the first matching document,               *)
(* and interventions likewise, for the order in which their ids were      *)
(* given; roles, machine_types, machines and maintenances are only read by *)
(* their unique key and are sets of documents.  Python None is None (-1)   *)
(* for optional integers, NoCard for a null card_UUID, NoList for a null   *)
(* authorization_ids, NoSeq for a null list of maintenances and NoText for *)
(* a null description.                                                     *)
(*                                                                         *)
(* The messaging side (src/mqtt.py, src/backend.py) is the MQTTInterface   *)
(* of a connected client, with its callbacks and its dispatch of messages, *)
(* and the construction of the Backend by main().                          *)
(***************************************************************************)
EXTENDS Integers, Sequences, FiniteSets, TLC

\* ------------------------------------------------------------------ bounds
MaxUses == 2         \* cap on the number of documents in uses
MaxTime == 2         \* cap on the wall clock
MaxInterventions == 2   \* cap on the number of documents in interventions

\* -------------------------------------------------------------- input sets
None == -1
NoCard == "null"
NoList == {None}
NoSeq == <<None>>
NoText == "null"

RoleIds == {0, 1}
TypeIds == {0, 1}
MachineIds == {0, 1}
UserIds == {0, 1}
Cards == {"A"}
MaintenanceIds == {0, 1}
Names == {"a", "b"}
Hours == {0, 1}
Times == 0 .. MaxTime
Procs == {1, 2}

OptUserIds == UserIds \cup {None}
OptCards == Cards \cup {NoCard}
OptTimes == Times \cup {None}
OptMaintenanceIds == MaintenanceIds \cup {None}

\* The identities a caller passes: a user_id alone, a card_UUID alone, or
\* neither, as <<user_id, card_UUID>>.
Identities ==
    {<<u, NoCard>> : u \in OptUserIds} \cup {<<None, c>> : c \in Cards}

VARIABLES
    roles,          \* collection "roles": set of role documents
    machine_types,  \* collection "machine_types": set of type documents
    users,          \* collection "users": sequence of user documents
    machines,       \* collection "machines": set of machine documents
    uses,           \* collection "uses": sequence of use documents
    maintenances,   \* collection "maintenances": set of maintenance documents
    interventions,  \* collection "interventions": sequence of documents
    now,            \* the last reading of time()
    ret,            \* the last call: its name, arguments, exception and result
    calls,          \* the position and locals of each concurrent startUse
    mqtt,           \* the fields of a connected client's MQTTInterface
    backend,        \* the Backend that main() constructs
    delivery        \* the last message: its topic, payload and callbacks

vars == <<roles, machine_types, users, machines, uses, maintenances,
          interventions, now, ret, calls, mqtt, backend, delivery>>
tracker == <<mqtt, backend, delivery>>
store == <<roles, machine_types, users, machines, uses, maintenances,
           interventions>>

\* ----------------------------------------------------------------- helpers
Min(S) == CHOOSE x \in S : \A y \in S : x <= y
Max(S) == CHOOSE x \in S : \A y \in S : x >= y

\* Python truthiness of an optional int: `not user_id` is true for None and 0.
Falsy(user_id) == user_id = None \/ user_id = 0

\* The record of a call: every field is present for every operation.
Ret(op, machine_id, user_id, card_UUID, err) ==
    [op |-> op, machine_id |-> machine_id, user_id |-> user_id,
     card_UUID |-> card_UUID, ids |-> {}, err |-> err,
     duration |-> 0, authorized |-> FALSE, used |-> FALSE,
     role_id |-> None, type_id |-> None, maintenance_id |-> None,
     new_id |-> None]

\* A process that is in no call.
Idle == [pc |-> "idle", machine_id |-> None, user_id |-> None,
         card_UUID |-> NoCard, uid |-> None, timestamp |-> None,
         use_id |-> None]

\* ------------------------------------------------------- DatabaseBackend
\* find_one({"card_UUID": card_UUID}): the positions of the matching users.
CardMatches(card_UUID) ==
    {i \in DOMAIN users : users[i].card_UUID = card_UUID}

\* result["user_id"] of the first match; with no match result is None and the
\* subscript raises TypeError (the callers test CardMatches first).
_getUserIdFromCard(card_UUID) == users[Min(CardMatches(card_UUID))].user_id

_validateRole(role_id) ==
    Cardinality({r \in roles : r.role_id = role_id}) = 1

_validateMachineType(type_id) ==
    Cardinality({t \in machine_types : t.type_id = type_id}) = 1

_validateUser(user_id) ==
    Cardinality({i \in DOMAIN users : users[i].user_id = user_id}) = 1

_validateMachine(machine_id) ==
    Cardinality({m \in machines : m.machine_id = machine_id}) = 1

_validateMaintenance(maintenance_id) ==
    Cardinality({m \in maintenances : m.maintenance_id = maintenance_id}) = 1

\* The positions of the uses matching
\* {"user_id": user_id, "machine_id": machine_id, "end_timestamp": None}.
UserActiveUses(machine_id, user_id) ==
    {i \in DOMAIN uses : /\ uses[i].user_id = user_id
                         /\ uses[i].machine_id = machine_id
                         /\ uses[i].end_timestamp = None}

_isUserCurrentlyUsing(machine_id, user_id) ==
    Cardinality(UserActiveUses(machine_id, user_id)) > 0

\* -------------------------------------------------------- DatabaseHelper
\* The positions of the uses matching {"machine_id": m, "end_timestamp": None}.
ActiveUses(machine_id) ==
    {i \in DOMAIN uses : /\ uses[i].machine_id = machine_id
                         /\ uses[i].end_timestamp = None}

\* A faulty filter: the count is taken over the closed uses of the machine
\* ({"$ne": None} in place of None).
isMachineCurrentlyUsed_closed(machine_id) ==
    Cardinality({i \in DOMAIN uses : /\ uses[i].machine_id = machine_id
                                     /\ uses[i].end_timestamp # None}) = 1

\* A faulty test: `> 0` in place of `== 1`.
isMachineCurrentlyUsed_any(machine_id) ==
    Cardinality(ActiveUses(machine_id)) > 0

isMachineCurrentlyUsed(machine_id) == Cardinality(ActiveUses(machine_id)) = 1

\* ------------------------------------------------------------- Database
\* The id given to a new document of uses: 0 in an empty collection,
\* otherwise the highest use_id plus one.
NextUseId ==
    IF Len(uses) = 0 THEN 0
    ELSE Max({uses[i].use_id : i \in DOMAIN uses}) + 1

NextUserId ==
    IF Len(users) = 0 THEN 0
    ELSE Max({users[i].user_id : i \in DOMAIN users}) + 1

\* Role(role_id, role_name, authorize_all).
NewRole(role_id, role_name, authorize_all) ==
    [role_id |-> role_id, role_name |-> role_name,
     authorize_all |-> authorize_all]

\* MachineType(type_id, type_name).
NewMachineType(type_id, type_name) ==
    [type_id |-> type_id, type_name |-> type_name]

\* Machine(machine_id, machine_name, machine_type, machine_hours): the list
\* of maintenances is null.
NewMachine(machine_id, machine_name, machine_type, machine_hours) ==
    [machine_id |-> machine_id, machine_name |-> machine_name,
     machine_type |-> machine_type, machine_hours |-> machine_hours,
     maintenances |-> NoSeq]

\* Use(use_id, user_id, machine_id, start_timestamp): end_timestamp is null.
NewUse(use_id, user_id, machine_id, timestamp) ==
    [use_id |-> use_id, user_id |-> user_id, machine_id |-> machine_id,
     start_timestamp |-> timestamp, end_timestamp |-> None]

\* User(user_id, name, surname, role_id, card_UUID): authorization_ids is null.
NewUser(user_id, role_id, card_UUID) ==
    [user_id |-> user_id, role_id |-> role_id,
     authorization_ids |-> NoList, card_UUID |-> card_UUID]

\* `if not user_id: user_id = self._getUserIdFromCard(card_UUID)`: the user
\* the call acts on (when the lookup finds a user).
ResolvedUser(user_id, card_UUID) ==
    IF Falsy(user_id) THEN _getUserIdFromCard(card_UUID) ELSE user_id

\* The first three checks of startUse and endUse: the card lookup (TypeError
\* on no match), _validateUser and _validateMachine.
ResolveError(machine_id, user_id, card_UUID) ==
    IF Falsy(user_id) /\ CardMatches(card_UUID) = {} THEN "TypeError"
    ELSE IF ~_validateUser(ResolvedUser(user_id, card_UUID)) THEN "InvalidId"
    ELSE IF ~_validateMachine(machine_id) THEN "InvalidId"
    ELSE "ok"

\* The exception startUse raises before it writes, "ok" when it raises none.
StartUseError(machine_id, user_id, card_UUID) ==
    IF ResolveError(machine_id, user_id, card_UUID) # "ok"
    THEN ResolveError(machine_id, user_id, card_UUID)
    ELSE IF isMachineCurrentlyUsed(machine_id) THEN "InvalidId"
    ELSE "ok"

\* time() is a wall clock: a reading is never below the last one.  It is read
\* only when the call got that far (ok) and was given no timestamp.
ClockReadings(ok, timestamp) ==
    IF ok /\ timestamp = None THEN now .. MaxTime ELSE {now}

startUse(machine_id, user_id, card_UUID, timestamp) ==
    LET err == StartUseError(machine_id, user_id, card_UUID)
        uid == ResolvedUser(user_id, card_UUID)
    IN  \E t \in ClockReadings(err = "ok", timestamp) :
            LET ts == IF timestamp = None THEN t ELSE timestamp
            IN  /\ err = "ok" => Len(uses) < MaxUses
                /\ now' = t
                /\ uses' = IF err = "ok"
                           THEN Append(uses,
                                       NewUse(NextUseId, uid, machine_id, ts))
                           ELSE uses
                /\ ret' = Ret("startUse", machine_id, user_id, card_UUID, err)
                /\ UNCHANGED <<roles, machine_types, users, machines, calls,
                               maintenances, interventions,
                               tracker>>

\* The exception endUse raises before it writes, "ok" when it raises none.
EndUseError(machine_id, user_id, card_UUID) ==
    IF ResolveError(machine_id, user_id, card_UUID) # "ok"
    THEN ResolveError(machine_id, user_id, card_UUID)
    ELSE IF ~_isUserCurrentlyUsing(machine_id,
                                   ResolvedUser(user_id, card_UUID))
         THEN "InvalidQuery"
    ELSE "ok"

\* find_one({"end_timestamp": timestamp}) on the collection c: the first
\* document whose end_timestamp is the one just written.
FindByEnd(c, timestamp) ==
    c[Min({i \in DOMAIN c : c[i].end_timestamp = timestamp})]

\* A faulty update: the filter of update_one leaves out "end_timestamp":
\* None, so the first use of the user on the machine is written, closed or
\* not.
endUse_anyUse(machine_id, user_id, card_UUID, timestamp) ==
    LET err == EndUseError(machine_id, user_id, card_UUID)
        uid == ResolvedUser(user_id, card_UUID)
        i   == Min({j \in DOMAIN uses : /\ uses[j].user_id = uid
                                        /\ uses[j].machine_id = machine_id})
    IN  \E t \in ClockReadings(err = "ok", timestamp) :
            LET ts  == IF timestamp = None THEN t ELSE timestamp
                upd == [uses EXCEPT ![i].end_timestamp = ts]
            IN  /\ now' = t
                /\ uses' = IF err = "ok" THEN upd ELSE uses
                /\ ret' = IF err = "ok"
                          THEN [Ret("endUse", machine_id, user_id, card_UUID,
                                    err)
                                  EXCEPT !.duration =
                                      ts - FindByEnd(upd, ts).start_timestamp]
                          ELSE Ret("endUse", machine_id, user_id, card_UUID,
                                   err)
                /\ UNCHANGED <<roles, machine_types, users, machines, calls,
                               maintenances, interventions,
                               tracker>>

endUse(machine_id, user_id, card_UUID, timestamp) ==
    LET err == EndUseError(machine_id, user_id, card_UUID)
        uid == ResolvedUser(user_id, card_UUID)
        i   == Min(UserActiveUses(machine_id, uid))
    IN  \E t \in ClockReadings(err = "ok", timestamp) :
            LET ts  == IF timestamp = None THEN t ELSE timestamp
                upd == [uses EXCEPT ![i].end_timestamp = ts]
            IN  /\ now' = t
                /\ uses' = IF err = "ok" THEN upd ELSE uses
                /\ ret' = IF err = "ok"
                          THEN [Ret("endUse", machine_id, user_id, card_UUID,
                                    err)
                                  EXCEPT !.duration =
                                      ts - FindByEnd(upd, ts).start_timestamp]
                          ELSE Ret("endUse", machine_id, user_id, card_UUID,
                                   err)
                /\ UNCHANGED <<roles, machine_types, users, machines, calls,
                               maintenances, interventions,
                               tracker>>

\* addUser: the role is validated, an omitted user_id is allocated, and the
\* unique index on user_id turns a duplicate into DuplicatedIdException.
addUser(role_id, user_id, card_UUID) ==
    LET uid == IF user_id = None THEN NextUserId ELSE user_id
        err == IF ~_validateRole(role_id) THEN "InvalidId"
               ELSE IF \E i \in DOMAIN users : users[i].user_id = uid
                    THEN "DuplicatedId"
               ELSE "ok"
    IN  /\ err = "ok" => uid \in UserIds
        /\ users' = IF err = "ok"
                    THEN Append(users, NewUser(uid, role_id, card_UUID))
                    ELSE users
        /\ ret' = [Ret("addUser", None, user_id, NoCard, err)
                     EXCEPT !.role_id = role_id,
                            !.new_id = IF err = "ok" THEN uid ELSE None]
        /\ UNCHANGED <<roles, machine_types, machines, uses, now, calls,
                       maintenances, interventions,
                       tracker>>

\* A faulty store: no unique index on user_id, the update always succeeds.
setUserId_unindexed(user_id, new_id) ==
    LET hit == {i \in DOMAIN users : users[i].user_id = user_id}
    IN  /\ users' = IF hit # {}
                    THEN [users EXCEPT ![Min(hit)].user_id = new_id]
                    ELSE users
        /\ ret' = [Ret("setUserId", None, user_id, NoCard, "ok")
                     EXCEPT !.new_id = new_id]
        /\ UNCHANGED <<roles, machine_types, machines, uses, now, calls,
                       maintenances, interventions,
                       tracker>>

\* setUserId: update_one on the first user with that id; the unique index on
\* user_id rejects an id another document holds with DuplicateKeyError, which
\* the method does not catch.
setUserId(user_id, new_id) ==
    LET hit == {i \in DOMAIN users : users[i].user_id = user_id}
        err == IF hit # {} /\ \E j \in DOMAIN users :
                                 j # Min(hit) /\ users[j].user_id = new_id
               THEN "DuplicateKeyError" ELSE "ok"
    IN  /\ users' = IF err = "ok" /\ hit # {}
                    THEN [users EXCEPT ![Min(hit)].user_id = new_id]
                    ELSE users
        /\ ret' = [Ret("setUserId", None, user_id, NoCard, err)
                     EXCEPT !.new_id = new_id]
        /\ UNCHANGED <<roles, machine_types, machines, uses, now, calls,
                       maintenances, interventions,
                       tracker>>

setUserCardUUID(user_id, card_UUID) ==
    LET hit == {i \in DOMAIN users : users[i].user_id = user_id}
    IN  /\ users' = IF hit # {}
                    THEN [users EXCEPT ![Min(hit)].card_UUID = card_UUID]
                    ELSE users
        /\ ret' = Ret("setUserCardUUID", None, user_id, card_UUID, "ok")
        /\ UNCHANGED <<roles, machine_types, machines, uses, now, calls,
                       maintenances, interventions,
                       tracker>>

\* addMachine: an unknown machine_type raises InvalidQueryException, a
\* duplicate machine_id DuplicatedIdException.
addMachine(machine_id, machine_name, machine_type, machine_hours) ==
    LET err == IF ~_validateMachineType(machine_type) THEN "InvalidQuery"
               ELSE IF \E m \in machines : m.machine_id = machine_id
                    THEN "DuplicatedId"
               ELSE "ok"
    IN  /\ machines' = IF err = "ok"
                       THEN machines \cup
                                {NewMachine(machine_id, machine_name,
                                            machine_type, machine_hours)}
                       ELSE machines
        /\ ret' = [Ret("addMachine", machine_id, None, NoCard, err)
                     EXCEPT !.type_id = machine_type]
        /\ UNCHANGED <<roles, machine_types, users, uses, now, calls,
                       maintenances, interventions,
                       tracker>>

\* delete_one(filter) on a collection held as a set: one of the documents
\* that match (hit) is deleted, none when nothing matches.
DeleteOne(c, hit) == IF hit = {} THEN c ELSE c \ {CHOOSE d \in hit : TRUE}

\* A faulty removal: the uses of the machine are deleted with it.
removeMachine_cascade(machine_id) ==
    /\ machines' = DeleteOne(machines,
                             {m \in machines : m.machine_id = machine_id})
    /\ uses' = SelectSeq(uses, LAMBDA u : u.machine_id # machine_id)
    /\ ret' = Ret("removeMachine", machine_id, None, NoCard, "ok")
    /\ UNCHANGED <<roles, machine_types, users, now, calls,
                   maintenances, interventions, tracker>>

removeMachine(machine_id) ==
    /\ machines' = DeleteOne(machines,
                             {m \in machines : m.machine_id = machine_id})
    /\ ret' = Ret("removeMachine", machine_id, None, NoCard, "ok")
    /\ UNCHANGED <<roles, machine_types, users, uses, now, calls,
                   maintenances, interventions,
                   tracker>>

\* ------------------------------------------------------------- messaging
\* The MQTT settings: the subscribed topic as its segments between "/", and
\* the two sentinel payloads.
_topic == <<"machines", "+">>
_connect_message == "connect"
_alive_message == "alive"

\* Topics as their segments between "/": machines/m0, machines/m1,
\* machines/ (empty last segment), machines/x/m1, other/m0, and machines.
Topics ==
    {<<"machines", "m0">>, <<"machines", "m1">>, <<"machines", "">>,
     <<"machines", "x", "m1">>, <<"other", "m0">>, <<"machines">>}
Payloads == {_connect_message, _alive_message, "status"}

\* A callback attribute is None or a callable of the client.
NoCallback == "None"
Callbacks == {"client"}

\* The None that _extractMachineFromTopic returns.
NoMachine == "None"

\* A dict is the set of its <<key, value>> pairs; Unassigned stands for an
\* attribute that was never assigned.
Unassigned == {<<"unassigned", None>>}

\* MQTTInterface.__init__: no callbacks, not connected, nothing awaited.
NewInterface ==
    [messageCallback |-> NoCallback,
     isMachineAuthorizedCallback |-> NoCallback,
     machineAliveCallback |-> NoCallback,
     connected |-> FALSE,
     awaiting_authorization |-> {},
     machineAlive |-> {}]

\* Before main() runs there is no Backend.
NoBackend ==
    [pc |-> "none", err |-> "ok",
     machineAliveCallback |-> NoCallback,
     isMachineAuthorizedCallback |-> NoCallback,
     last_alive |-> Unassigned]

\* The record of an event on the interface: the call, and for a message its
\* topic, its payload and the calls made while it was handled.
Event(op, topic, payload, fired) ==
    [op |-> op, topic |-> topic, payload |-> payload, fired |-> fired]

InitTracker ==
    /\ mqtt = NewInterface
    /\ backend = NoBackend
    /\ delivery = Event("init", <<>>, "", {})

\* ------------------------------------------------- sequential session use
\* The store after the bootstrap addRole(0, authorize_all=True),
\* addMachineType(0) on a fresh database.
InitUse ==
    /\ roles = {NewRole(0, "a", TRUE)}
    /\ machine_types = {NewMachineType(0, "a")}
    /\ users = <<>>
    /\ machines = {}
    /\ uses = <<>>
    /\ maintenances = {}
    /\ interventions = <<>>
    /\ now = 0
    /\ ret = Ret("init", None, None, NoCard, "ok")
    /\ calls = [p \in Procs |-> Idle]
    /\ InitTracker

NextUse ==
    \/ \E m \in MachineIds, id \in Identities :
           startUse(m, id[1], id[2], 0)
    \/ \E m \in MachineIds, id \in Identities :
           endUse(m, id[1], id[2], 0)
    \/ \E u \in OptUserIds, c \in OptCards : addUser(0, u, c)
    \/ \E u \in UserIds, n \in UserIds : setUserId(u, n)
    \/ \E u \in UserIds, c \in OptCards : setUserCardUUID(u, c)
    \/ \E m \in MachineIds : addMachine(m, "a", 0, 0)
    \/ \E m \in MachineIds : removeMachine(m)

SpecUse == InitUse /\ [][NextUse]_vars

\* ------------------------------------------- session use with timestamps
\* The store after the bootstrap addRole(0, authorize_all=True),
\* addMachineType(0), addUser(role 0) twice, setUserCardUUID(1, "A"),
\* addMachine(0, type 0), addMachine(1, type 0).
InitPopulated ==
    /\ roles = {NewRole(0, "a", TRUE)}
    /\ machine_types = {NewMachineType(0, "a")}
    /\ users = <<NewUser(0, 0, NoCard), NewUser(1, 0, "A")>>
    /\ machines = {NewMachine(m, "a", 0, 0) : m \in MachineIds}
    /\ uses = <<>>
    /\ maintenances = {}
    /\ interventions = <<>>
    /\ now = 0
    /\ ret = Ret("init", None, None, NoCard, "ok")
    /\ calls = [p \in Procs |-> Idle]
    /\ InitTracker

NextTime ==
    \/ \E m \in MachineIds, id \in Identities, t \in OptTimes :
           startUse(m, id[1], id[2], t)
    \/ \E m \in MachineIds, id \in Identities, t \in OptTimes :
           endUse(m, id[1], id[2], t)

SpecTime == InitPopulated /\ [][NextTime]_vars

\* --------------------------------------------------- concurrent startUse
\* startUse run by a process as the separate store calls the code makes: the
\* lookups and validations, the count of isMachineCurrentlyUsed, the
\* count_documents({}) of the id allocation, its sorted find, and insert_one.
\* users and machines do not change here, so the first reads are one step.
StartCall(p, machine_id, user_id, card_UUID, timestamp) ==
    LET err == ResolveError(machine_id, user_id, card_UUID)
        busy == Cardinality({q \in Procs : calls[q].pc # "idle"})
    IN  /\ calls[p].pc = "idle"
        /\ Len(uses) + busy < MaxUses
        /\ IF err = "ok"
           THEN /\ calls' = [calls EXCEPT ![p] =
                      [pc |-> "used", machine_id |-> machine_id,
                       user_id |-> user_id, card_UUID |-> card_UUID,
                       uid |-> ResolvedUser(user_id, card_UUID),
                       timestamp |-> timestamp, use_id |-> None]]
                /\ UNCHANGED ret
           ELSE /\ ret' = Ret("startUse", machine_id, user_id, card_UUID, err)
                /\ UNCHANGED calls
        /\ UNCHANGED <<roles, machine_types, users, machines, uses, now,
                       maintenances, interventions,
                       tracker>>

\* `if self.isMachineCurrentlyUsed(machine_id): raise`, then the timestamp.
CheckUsed(p) ==
    LET c == calls[p]
        free == ~isMachineCurrentlyUsed(c.machine_id)
    IN  /\ c.pc = "used"
        /\ \E t \in ClockReadings(free, c.timestamp) :
               /\ now' = t
               /\ IF free
                  THEN /\ calls' = [calls EXCEPT
                             ![p].pc = "count",
                             ![p].timestamp = IF c.timestamp = None THEN t
                                              ELSE c.timestamp]
                       /\ UNCHANGED ret
                  ELSE /\ calls' = [calls EXCEPT ![p] = Idle]
                       /\ ret' = Ret("startUse", c.machine_id, c.user_id,
                                     c.card_UUID, "InvalidId")
        /\ UNCHANGED <<roles, machine_types, users, machines, uses,
                       maintenances, interventions,
                       tracker>>

\* `if collection.count_documents({}) == 0: use_id = 0`.
CountUses(p) ==
    /\ calls[p].pc = "count"
    /\ calls' = IF Len(uses) = 0
                THEN [calls EXCEPT ![p].pc = "insert", ![p].use_id = 0]
                ELSE [calls EXCEPT ![p].pc = "sort"]
    /\ UNCHANGED <<roles, machine_types, users, machines, uses, now, ret,
                   maintenances, interventions,
                   tracker>>

\* `last = ...sort("use_id", DESCENDING).limit(1)[0]; use_id = last + 1`.
SortUses(p) ==
    /\ calls[p].pc = "sort"
    /\ calls' = [calls EXCEPT ![p].pc = "insert", ![p].use_id = NextUseId]
    /\ UNCHANGED <<roles, machine_types, users, machines, uses, now, ret,
                   maintenances, interventions,
                   tracker>>

\* `collection.insert_one(u.serialize())`: the unique index on use_id turns
\* a use_id already stored into DuplicateKeyError, which is not caught.
InsertUse(p) ==
    LET c == calls[p]
        dup == \E i \in DOMAIN uses : uses[i].use_id = c.use_id
    IN  /\ c.pc = "insert"
        /\ uses' = IF dup THEN uses
                   ELSE Append(uses, NewUse(c.use_id, c.uid, c.machine_id,
                                            c.timestamp))
        /\ ret' = Ret("startUse", c.machine_id, c.user_id, c.card_UUID,
                      IF dup THEN "DuplicateKeyError" ELSE "ok")
        /\ calls' = [calls EXCEPT ![p] = Idle]
        /\ UNCHANGED <<roles, machine_types, users, machines, now,
                       maintenances, interventions,
                       tracker>>

NextRace ==
    \/ \E p \in Procs, m \in MachineIds, id \in Identities :
           StartCall(p, m, id[1], id[2], 0)
    \/ \E p \in Procs : CheckUsed(p)
    \/ \E p \in Procs : CountUses(p)
    \/ \E p \in Procs : SortUses(p)
    \/ \E p \in Procs : InsertUse(p)

SpecRace == InitPopulated /\ [][NextRace]_vars

\* -------------------------------------------------------- authorization
\* The document find_one({"user_id": user_id}) returns (the callers have
\* validated user_id).
UserDoc(user_id) ==
    users[Min({i \in DOMAIN users : users[i].user_id = user_id})]

\* getUserFromCardUUID: the first user holding the card; the method raises
\* InvalidQueryException when there is none.
getUserFromCardUUID(card_UUID) == users[Min(CardMatches(card_UUID))]

\* getUserRole: the listed roles whose role_id is the user's role_id.  The
\* method returns the first of them and None when there is none.
getUserRole(user_id) ==
    {r \in roles : r.role_id = UserDoc(user_id).role_id}

getMachineMachineType(machine_id) ==
    (CHOOSE m \in machines : m.machine_id = machine_id).machine_type

\* A faulty getUserAuthorization: the stored ids, not looked up among the
\* machine types.
getUserAuthorization_stored(user_id) ==
    LET stored == UserDoc(user_id).authorization_ids
    IN  IF stored = NoList THEN {}
        ELSE {NewMachineType(t, "a") : t \in stored}

\* getUserAuthorization: [] for a null or empty authorization_ids, otherwise
\* the listed MachineTypes whose type_id is in authorization_ids.
getUserAuthorization(user_id) ==
    LET stored == UserDoc(user_id).authorization_ids
    IN  IF stored = NoList \/ stored = {} THEN {}
        ELSE {t \in machine_types : t.type_id \in stored}

\* A faulty check order: the user is resolved before the machine is
\* validated.
AuthorizedError_userFirst(machine_id, user_id, card_UUID) ==
    IF user_id = None /\ card_UUID = NoCard THEN "InvalidQuery"
    ELSE IF user_id = None /\ CardMatches(card_UUID) = {} THEN "InvalidQuery"
    ELSE IF ~_validateMachine(machine_id) THEN "InvalidId"
    ELSE IF ~_validateUser(IF user_id = None
                           THEN getUserFromCardUUID(card_UUID).user_id
                           ELSE user_id) THEN "InvalidId"
    ELSE "ok"

\* The exception isUserAuthroizedForMachine raises, "ok" when it returns.
\* `role.authorize_all` on the None that getUserRole returns for a role that
\* is not listed raises AttributeError.
AuthorizedError(machine_id, user_id, card_UUID) ==
    IF user_id = None /\ card_UUID = NoCard THEN "InvalidQuery"
    ELSE IF ~_validateMachine(machine_id) THEN "InvalidId"
    ELSE IF user_id = None /\ CardMatches(card_UUID) = {} THEN "InvalidQuery"
    ELSE LET uid == IF user_id = None
                    THEN getUserFromCardUUID(card_UUID).user_id
                    ELSE user_id
         IN  IF ~_validateUser(uid) THEN "InvalidId"
             ELSE IF getUserRole(uid) = {} THEN "AttributeError"
             ELSE "ok"

\* A faulty decision: the role is not consulted.
AuthorizedValue_grantsOnly(machine_id, user_id) ==
    \E a \in getUserAuthorization(user_id) :
        a.type_id = getMachineMachineType(machine_id)

\* The value isUserAuthroizedForMachine returns for a validated machine and
\* user: True for a role with authorize_all, otherwise whether an
\* authorization of the user is the machine's type.
AuthorizedValue(machine_id, user_id) ==
    IF \A r \in getUserRole(user_id) : r.authorize_all THEN TRUE
    ELSE \E a \in getUserAuthorization(user_id) :
             a.type_id = getMachineMachineType(machine_id)

isUserAuthroizedForMachine(machine_id, user_id, card_UUID) ==
    LET err == AuthorizedError(machine_id, user_id, card_UUID)
        uid == IF user_id = None THEN getUserFromCardUUID(card_UUID).user_id
               ELSE user_id
    IN  /\ ret' = [Ret("isAuthorized", machine_id, user_id, card_UUID, err)
                     EXCEPT !.authorized =
                         IF err = "ok" THEN AuthorizedValue(machine_id, uid)
                         ELSE FALSE]
        /\ UNCHANGED <<roles, machine_types, users, machines, uses, now,
                       calls, maintenances, interventions,
                       tracker>>

\* A faulty update: the ids are added to the stored ones ($push for $set).
setUserAuthorization_additive(user_id, authorization_ids) ==
    LET known == {t.type_id : t \in machine_types}
        err == IF authorization_ids \subseteq known THEN "ok"
               ELSE "InvalidId"
        hit == {i \in DOMAIN users : users[i].user_id = user_id}
    IN  /\ users' = IF err = "ok" /\ hit # {}
                    THEN [users EXCEPT ![Min(hit)].authorization_ids =
                             (@ \ NoList) \cup authorization_ids]
                    ELSE users
        /\ ret' = [Ret("setUserAuthorization", None, user_id, NoCard, err)
                     EXCEPT !.ids = authorization_ids]
        /\ UNCHANGED <<roles, machine_types, machines, uses, now, calls,
                       maintenances, interventions,
                       tracker>>

\* setUserAuthorization: InvalidIdException on the first id that is no
\* listed machine type, otherwise $set of authorization_ids on the user (no
\* document matches an unknown user_id).  The list is modelled by its ids.
setUserAuthorization(user_id, authorization_ids) ==
    LET known == {t.type_id : t \in machine_types}
        err == IF authorization_ids \subseteq known THEN "ok"
               ELSE "InvalidId"
        hit == {i \in DOMAIN users : users[i].user_id = user_id}
    IN  /\ users' = IF err = "ok" /\ hit # {}
                    THEN [users EXCEPT ![Min(hit)].authorization_ids =
                             authorization_ids]
                    ELSE users
        /\ ret' = [Ret("setUserAuthorization", None, user_id, NoCard, err)
                     EXCEPT !.ids = authorization_ids]
        /\ UNCHANGED <<roles, machine_types, machines, uses, now, calls,
                       maintenances, interventions,
                       tracker>>

setUserRole(user_id, role_id) ==
    LET err == IF ~_validateRole(role_id) THEN "InvalidId" ELSE "ok"
        hit == {i \in DOMAIN users : users[i].user_id = user_id}
    IN  /\ users' = IF err = "ok" /\ hit # {}
                    THEN [users EXCEPT ![Min(hit)].role_id = role_id]
                    ELSE users
        /\ ret' = [Ret("setUserRole", None, user_id, NoCard, err)
                     EXCEPT !.role_id = role_id]
        /\ UNCHANGED <<roles, machine_types, machines, uses, now, calls,
                       maintenances, interventions,
                       tracker>>

addMachineType(type_id, type_name) ==
    LET err == IF \E t \in machine_types : t.type_id = type_id
               THEN "DuplicatedId" ELSE "ok"
    IN  /\ machine_types' = IF err = "ok"
                            THEN machine_types \cup
                                     {NewMachineType(type_id, type_name)}
                            ELSE machine_types
        /\ ret' = [Ret("addMachineType", None, None, NoCard, err)
                     EXCEPT !.type_id = type_id]
        /\ UNCHANGED <<roles, users, machines, uses, now, calls,
                       maintenances, interventions,
                       tracker>>

removeMachineType(type_id) ==
    /\ machine_types' =
           DeleteOne(machine_types,
                     {t \in machine_types : t.type_id = type_id})
    /\ ret' = [Ret("removeMachineType", None, None, NoCard, "ok")
                 EXCEPT !.type_id = type_id]
    /\ UNCHANGED <<roles, users, machines, uses, now, calls, maintenances,
                   interventions,
                   tracker>>

\* The store after the bootstrap addRole(0, authorize_all=True),
\* addRole(1, authorize_all=False) on a fresh database.
InitAuth ==
    /\ roles = {NewRole(0, "a", TRUE), NewRole(1, "a", FALSE)}
    /\ machine_types = {}
    /\ users = <<>>
    /\ machines = {}
    /\ uses = <<>>
    /\ maintenances = {}
    /\ interventions = <<>>
    /\ now = 0
    /\ ret = Ret("init", None, None, NoCard, "ok")
    /\ calls = [p \in Procs |-> Idle]
    /\ InitTracker

NextAuth ==
    \/ \E r \in RoleIds, c \in OptCards : addUser(r, None, c)
    \/ \E u \in UserIds, r \in RoleIds : setUserRole(u, r)
    \/ \E u \in UserIds, ids \in SUBSET TypeIds : setUserAuthorization(u, ids)
    \/ \E t \in TypeIds : addMachineType(t, "a")
    \/ \E t \in TypeIds : removeMachineType(t)
    \/ \E t \in TypeIds : addMachine(0, "a", t, 0)
    \/ removeMachine(0)
    \/ \E m \in MachineIds, id \in Identities :
           isUserAuthroizedForMachine(m, id[1], id[2])

SpecAuth == InitAuth /\ [][NextAuth]_vars

\* -------------------------------------------------- roles and type names
\* A faulty insert: a role whose id is stored is replaced (an upsert).
addRole_replace(role_id, role_name, authorize_all) ==
    /\ roles' = {r \in roles : r.role_id # role_id}
                    \cup {NewRole(role_id, role_name, authorize_all)}
    /\ ret' = [Ret("addRole", None, None, NoCard, "ok")
                 EXCEPT !.role_id = role_id]
    /\ UNCHANGED <<machine_types, users, machines, uses, maintenances,
                   interventions, now, calls,
                   tracker>>

addRole(role_id, role_name, authorize_all) ==
    LET err == IF \E r \in roles : r.role_id = role_id
               THEN "DuplicatedId" ELSE "ok"
    IN  /\ roles' = IF err = "ok"
                    THEN roles \cup {NewRole(role_id, role_name,
                                             authorize_all)}
                    ELSE roles
        /\ ret' = [Ret("addRole", None, None, NoCard, err)
                     EXCEPT !.role_id = role_id]
        /\ UNCHANGED <<machine_types, users, machines, uses, maintenances,
                       interventions, now, calls,
                       tracker>>

\* editRoleName: update_one({"role_id": role_id}, $set role_name).
editRoleName(role_id, new_role_name) ==
    /\ roles' = {IF r.role_id = role_id
                 THEN [r EXCEPT !.role_name = new_role_name] ELSE r
                 : r \in roles}
    /\ ret' = [Ret("editRoleName", None, None, NoCard, "ok")
                 EXCEPT !.role_id = role_id]
    /\ UNCHANGED <<machine_types, users, machines, uses, maintenances,
                   interventions, now, calls,
                   tracker>>

removeRole(role_id) ==
    /\ roles' = DeleteOne(roles, {r \in roles : r.role_id = role_id})
    /\ ret' = [Ret("removeRole", None, None, NoCard, "ok")
                 EXCEPT !.role_id = role_id]
    /\ UNCHANGED <<machine_types, users, machines, uses, maintenances,
                   interventions, now, calls,
                   tracker>>

editMachineTypeName(type_id, new_type_name) ==
    /\ machine_types' = {IF t.type_id = type_id
                         THEN [t EXCEPT !.type_name = new_type_name] ELSE t
                         : t \in machine_types}
    /\ ret' = [Ret("editMachineTypeName", None, None, NoCard, "ok")
                 EXCEPT !.type_id = type_id]
    /\ UNCHANGED <<roles, users, machines, uses, maintenances,
                   interventions, now, calls,
                   tracker>>

\* ---------------------------------------------------- machine attributes
\* A faulty update: a machine_id that is not stored is refused.
setMachinesHours_checked(machine_id, machine_hours) ==
    LET err == IF _validateMachine(machine_id) THEN "ok" ELSE "InvalidId"
    IN  /\ machines' = {IF m.machine_id = machine_id
                        THEN [m EXCEPT !.machine_hours = machine_hours]
                        ELSE m : m \in machines}
        /\ ret' = Ret("setMachinesHours", machine_id, None, NoCard, err)
        /\ UNCHANGED <<roles, machine_types, users, uses, maintenances,
                       interventions, now, calls,
                       tracker>>

setMachinesHours(machine_id, machine_hours) ==
    /\ machines' = {IF m.machine_id = machine_id
                    THEN [m EXCEPT !.machine_hours = machine_hours] ELSE m
                    : m \in machines}
    /\ ret' = Ret("setMachinesHours", machine_id, None, NoCard, "ok")
    /\ UNCHANGED <<roles, machine_types, users, uses, maintenances,
                   interventions, now, calls,
                   tracker>>

setMachineName(machine_id, new_machine_name) ==
    /\ machines' = {IF m.machine_id = machine_id
                    THEN [m EXCEPT !.machine_name = new_machine_name] ELSE m
                    : m \in machines}
    /\ ret' = Ret("setMachineName", machine_id, None, NoCard, "ok")
    /\ UNCHANGED <<roles, machine_types, users, uses, maintenances,
                   interventions, now, calls,
                   tracker>>

\* setMachineMachineType: InvalidIdException for a type that is not listed.
setMachineMachineType(machine_id, machine_type) ==
    LET err == IF machine_type \notin {t.type_id : t \in machine_types}
               THEN "InvalidId" ELSE "ok"
    IN  /\ machines' = IF err = "ok"
                       THEN {IF m.machine_id = machine_id
                             THEN [m EXCEPT !.machine_type = machine_type]
                             ELSE m : m \in machines}
                       ELSE machines
        /\ ret' = [Ret("setMachineMachineType", machine_id, None, NoCard,
                       err) EXCEPT !.type_id = machine_type]
        /\ UNCHANGED <<roles, machine_types, users, uses, maintenances,
                       interventions, now, calls,
                       tracker>>

\* addMachineMaintenance: the maintenance, then the machine is validated; a
\* null or empty list is replaced by [maintenance_id], otherwise the id is
\* pushed at its end.
addMachineMaintenance(machine_id, maintenance_id) ==
    LET err == IF ~_validateMaintenance(maintenance_id) THEN "InvalidId"
               ELSE IF ~_validateMachine(machine_id) THEN "InvalidId"
               ELSE "ok"
        attach(m) == IF m.maintenances = NoSeq \/ m.maintenances = <<>>
                     THEN <<maintenance_id>>
                     ELSE Append(m.maintenances, maintenance_id)
    IN  /\ err = "ok" =>
               \A m \in machines :
                   (m.machine_id = machine_id /\ m.maintenances # NoSeq)
                   => Len(m.maintenances) < Cardinality(MaintenanceIds)
        /\ machines' = IF err = "ok"
                       THEN {IF m.machine_id = machine_id
                             THEN [m EXCEPT !.maintenances = attach(m)]
                             ELSE m : m \in machines}
                       ELSE machines
        /\ ret' = [Ret("addMachineMaintenance", machine_id, None, NoCard,
                       err) EXCEPT !.maintenance_id = maintenance_id]
        /\ UNCHANGED <<roles, machine_types, users, uses, maintenances,
                       interventions, now, calls,
                       tracker>>

\* ------------------------------------------- maintenances, interventions
\* Maintenance(maintenance_id, hours_between, description).
NewMaintenance(maintenance_id, hours_between, description) ==
    [maintenance_id |-> maintenance_id, hours_between |-> hours_between,
     description |-> description]

\* A faulty allocation: the lowest id that no maintenance holds.
NextMaintenanceId_lowestFree ==
    Min({i \in 0 .. Cardinality(maintenances) :
             \A m \in maintenances : m.maintenance_id # i})

NextMaintenanceId ==
    IF maintenances = {} THEN 0
    ELSE Max({m.maintenance_id : m \in maintenances}) + 1

NextInterventionId ==
    IF Len(interventions) = 0 THEN 0
    ELSE Max({interventions[i].intervention_id : i \in DOMAIN interventions})
         + 1

\* addMaintenance: an omitted maintenance_id is allocated; the unique index
\* turns a duplicate into DuplicatedIdException.  The id is returned.
addMaintenance(hours_between, description, maintenance_id) ==
    LET mid == IF maintenance_id = None THEN NextMaintenanceId
               ELSE maintenance_id
        err == IF \E m \in maintenances : m.maintenance_id = mid
               THEN "DuplicatedId" ELSE "ok"
    IN  /\ err = "ok" => mid <= Max(MaintenanceIds) + 1
        /\ maintenances' =
               IF err = "ok"
               THEN maintenances \cup
                        {NewMaintenance(mid, hours_between, description)}
               ELSE maintenances
        /\ ret' = [Ret("addMaintenance", None, None, NoCard, err)
                     EXCEPT !.maintenance_id = maintenance_id,
                            !.new_id = IF err = "ok" THEN mid ELSE None]
        /\ UNCHANGED <<roles, machine_types, users, machines, uses,
                       interventions, now, calls,
                       tracker>>

\* A faulty removal: an id that is not stored is refused.
removeMaintenance_strict(maintenance_id) ==
    LET err == IF _validateMaintenance(maintenance_id) THEN "ok"
               ELSE "InvalidId"
    IN  /\ maintenances' =
               {m \in maintenances : m.maintenance_id # maintenance_id}
        /\ ret' = [Ret("removeMaintenance", None, None, NoCard, err)
                     EXCEPT !.maintenance_id = maintenance_id]
        /\ UNCHANGED <<roles, machine_types, users, machines, uses,
                       interventions, now, calls,
                       tracker>>

removeMaintenance(maintenance_id) ==
    /\ maintenances' =
           DeleteOne(maintenances,
                     {m \in maintenances : m.maintenance_id = maintenance_id})
    /\ ret' = [Ret("removeMaintenance", None, None, NoCard, "ok")
                 EXCEPT !.maintenance_id = maintenance_id]
    /\ UNCHANGED <<roles, machine_types, users, machines, uses,
                   interventions, now, calls,
                   tracker>>

setMaintenanceDescription(maintenance_id, new_maintenance_description) ==
    /\ maintenances' =
           {IF m.maintenance_id = maintenance_id
            THEN [m EXCEPT !.description = new_maintenance_description]
            ELSE m : m \in maintenances}
    /\ ret' = [Ret("setMaintenanceDescription", None, None, NoCard, "ok")
                 EXCEPT !.maintenance_id = maintenance_id]
    /\ UNCHANGED <<roles, machine_types, users, machines, uses,
                   interventions, now, calls,
                   tracker>>

setMaintenanceHoursBetween(maintenance_id, new_hours_between) ==
    /\ maintenances' =
           {IF m.maintenance_id = maintenance_id
            THEN [m EXCEPT !.hours_between = new_hours_between]
            ELSE m : m \in maintenances}
    /\ ret' = [Ret("setMaintenanceHoursBetween", None, None, NoCard, "ok")
                 EXCEPT !.maintenance_id = maintenance_id]
    /\ UNCHANGED <<roles, machine_types, users, machines, uses,
                   interventions, now, calls,
                   tracker>>

\* A faulty validation: the user is not looked up.
InterventionError_noUser(maintenance_id, machine_id, user_id) ==
    IF ~_validateMaintenance(maintenance_id) THEN "InvalidId"
    ELSE IF ~_validateMachine(machine_id) THEN "InvalidId"
    ELSE "ok"

\* The exception addIntervention raises before it writes: the maintenance,
\* the machine and the user are validated in this order.
InterventionError(maintenance_id, machine_id, user_id) ==
    IF ~_validateMaintenance(maintenance_id) THEN "InvalidId"
    ELSE IF ~_validateMachine(machine_id) THEN "InvalidId"
    ELSE IF ~_validateUser(user_id) THEN "InvalidId"
    ELSE "ok"

\* Intervention(intervention_id, maintenance_id, machine_id, user_id,
\* timestamp).
NewIntervention(intervention_id, maintenance_id, machine_id, user_id, ts) ==
    [intervention_id |-> intervention_id, maintenance_id |-> maintenance_id,
     machine_id |-> machine_id, user_id |-> user_id, timestamp |-> ts]

\* addIntervention: the references are validated, the timestamp defaults to
\* time(), the id is allocated and returned.
addIntervention(maintenance_id, machine_id, user_id, timestamp) ==
    LET err == InterventionError(maintenance_id, machine_id, user_id)
    IN  \E t \in ClockReadings(err = "ok", timestamp) :
            LET ts == IF timestamp = None THEN t ELSE timestamp
            IN  /\ err = "ok" => Len(interventions) < MaxInterventions
                /\ now' = t
                /\ interventions' =
                       IF err = "ok"
                       THEN Append(interventions,
                                   NewIntervention(NextInterventionId,
                                                   maintenance_id,
                                                   machine_id, user_id, ts))
                       ELSE interventions
                /\ ret' = [Ret("addIntervention", machine_id, user_id,
                               NoCard, err)
                             EXCEPT !.maintenance_id = maintenance_id,
                                    !.new_id = IF err = "ok"
                                               THEN NextInterventionId
                                               ELSE None]
                /\ UNCHANGED <<roles, machine_types, users, machines, uses,
                               maintenances, calls,
                               tracker>>

\* ----------------------------------------------------- adds and removes
\* A fresh database: every collection is empty and has its unique index.
InitEmpty ==
    /\ roles = {}
    /\ machine_types = {}
    /\ users = <<>>
    /\ machines = {}
    /\ uses = <<>>
    /\ maintenances = {}
    /\ interventions = <<>>
    /\ now = 0
    /\ ret = Ret("init", None, None, NoCard, "ok")
    /\ calls = [p \in Procs |-> Idle]
    /\ InitTracker

NextAdd ==
    \/ \E b \in BOOLEAN : addRole(0, "a", b)
    \/ removeRole(0)
    \/ \E n \in Names : addMachineType(0, n)
    \/ removeMachineType(0)
    \/ \E u \in OptUserIds : addUser(0, u, NoCard)
    \/ \E m \in MachineIds, h \in Hours : addMachine(m, "a", 0, h)
    \/ \E m \in MachineIds : removeMachine(m)
    \/ \E h \in Hours, i \in OptMaintenanceIds : addMaintenance(h, NoText, i)
    \/ \E i \in MaintenanceIds : removeMaintenance(i)

SpecAdd == InitEmpty /\ [][NextAdd]_vars

\* ------------------------------------------------------- id allocation
\* Adds with and without an id, on the store InitUse, with the removals and
\* the session operations that make room for further Adds.
NextAlloc ==
    \/ \E u \in OptUserIds : addUser(0, u, NoCard)
    \/ \E i \in OptMaintenanceIds : addMaintenance(0, NoText, i)
    \/ \E i \in MaintenanceIds : removeMaintenance(i)
    \/ addMachine(0, "a", 0, 0)
    \/ \E i \in MaintenanceIds, u \in UserIds : addIntervention(i, 0, u, 0)
    \/ \E u \in UserIds : startUse(0, u, NoCard, 0)
    \/ \E u \in UserIds : endUse(0, u, NoCard, 0)

SpecAlloc == InitUse /\ [][NextAlloc]_vars

\* ---------------------------------------------------- uniqueness of ids
\* Concurrent startUse calls, as in NextRace, on the store InitPopulated,
\* together with setUserId and with Adds of every kind that name a stored id
\* with other field values, or no id.
NextIds ==
    \/ \E p \in Procs, m \in MachineIds, u \in UserIds :
           StartCall(p, m, u, NoCard, 0)
    \/ \E p \in Procs : CheckUsed(p)
    \/ \E p \in Procs : CountUses(p)
    \/ \E p \in Procs : SortUses(p)
    \/ \E p \in Procs : InsertUse(p)
    \/ \E u \in UserIds, n \in UserIds : setUserId(u, n)
    \/ \E u \in UserIds : addUser(0, u, "A")
    \/ addRole(0, "b", FALSE)
    \/ addMachineType(0, "b")
    \/ addMachine(0, "b", 0, 1)
    \/ \E h \in Hours, i \in {0, None} : addMaintenance(h, NoText, i)
    \/ addIntervention(0, 0, 1, 0)

SpecIds == InitPopulated /\ [][NextIds]_vars

\* ------------------------------------------------ writes of references
\* The operations that store a reference, called with stored and with
\* absent ids on the store InitPopulated (role 1 and type 1 are absent),
\* and the removals that make a stored id absent.
NextRefs ==
    \/ \E r \in RoleIds, u \in UserIds : addUser(r, u, NoCard)
    \/ \E u \in UserIds, r \in RoleIds : setUserRole(u, r)
    \/ \E m \in MachineIds, t \in TypeIds : setMachineMachineType(m, t)
    \/ \E i \in MaintenanceIds : addMachineMaintenance(0, i)
    \/ addMaintenance(0, NoText, None)
    \/ \E i \in MaintenanceIds : removeMaintenance(i)
    \/ \E m \in MachineIds : removeMachine(m)
    \/ \E i \in MaintenanceIds, m \in MachineIds,
          u \in {Max(UserIds), Max(UserIds) + 1} :
           addIntervention(i, m, u, 0)

SpecRefs == InitPopulated /\ [][NextRefs]_vars

\* ------------------------------------------------------ Set operations
\* The Set operations, called with stored and with absent ids on the store
\* InitPopulated: role 1 and type 1 are absent, user_id 2 is absent until a
\* user is renumbered to it, machine 1 is absent once removed, maintenance 0
\* is absent until added.
NextSet ==
    \/ \E r \in RoleIds : editRoleName(r, "b")
    \/ \E t \in TypeIds : editMachineTypeName(t, "b")
    \/ \E u \in 0 .. Max(UserIds) + 1 : setUserRole(u, 0)
    \/ \E u \in 0 .. Max(UserIds) + 1 : setUserAuthorization(u, {0})
    \/ \E u \in 0 .. Max(UserIds) + 1 : setUserCardUUID(u, "A")
    \/ \E u \in 0 .. Max(UserIds) + 1 : setUserId(u, Max(UserIds) + 1)
    \/ setMachinesHours(1, 1)
    \/ setMachineName(1, "b")
    \/ setMachineMachineType(1, 0)
    \/ removeMachine(1)
    \/ addMaintenance(0, NoText, 0)
    \/ setMaintenanceDescription(0, "b")
    \/ setMaintenanceHoursBetween(0, 1)

SpecSet == InitPopulated /\ [][NextSet]_vars

\* ---------------------------------------------------------------- queries
\* The loop of getUserTotalTime over the first n documents of the collection
\* c: `total += u["end_timestamp"] - u["start_timestamp"]` for the documents
\* matching {"user_id": user_id, "end_timestamp": {"$exists", "$ne": None}}.
RECURSIVE TotalTime(_, _, _)
TotalTime(c, user_id, n) ==
    IF n = 0 THEN 0
    ELSE TotalTime(c, user_id, n - 1) +
         (IF c[n].user_id = user_id /\ c[n].end_timestamp # None
          THEN c[n].end_timestamp - c[n].start_timestamp
          ELSE 0)

\* A faulty filter: {"user_id": user_id} alone, an active use counted up to
\* the last clock reading.
UserTotalTime_open(user_id) ==
    TotalTime([i \in DOMAIN uses |->
                  IF uses[i].end_timestamp = None
                  THEN [uses[i] EXCEPT !.end_timestamp = MaxTime + 1]
                  ELSE uses[i]],
              user_id, Len(uses))

UserTotalTime(user_id) == TotalTime(uses, user_id, Len(uses))

getUserTotalTime(user_id) ==
    LET err == IF ~_validateUser(user_id) THEN "InvalidId" ELSE "ok"
    IN  /\ ret' = [Ret("getUserTotalTime", None, user_id, NoCard, err)
                     EXCEPT !.duration = IF err = "ok"
                                         THEN UserTotalTime(user_id) ELSE 0]
        /\ UNCHANGED <<roles, machine_types, users, machines, uses, now,
                       calls, maintenances, interventions,
                       tracker>>

\* getUserUses: the identity is resolved as in startUse; the result is
\* recorded as the use_ids of the documents matching {"user_id": user_id}.
getUserUses(user_id, card_UUID) ==
    LET err == IF Falsy(user_id) /\ CardMatches(card_UUID) = {}
               THEN "TypeError"
               ELSE IF ~_validateUser(ResolvedUser(user_id, card_UUID))
                    THEN "InvalidId"
               ELSE "ok"
    IN  /\ ret' = [Ret("getUserUses", None, user_id, card_UUID, err)
                     EXCEPT !.ids =
                         IF err = "ok"
                         THEN {uses[i].use_id : i \in
                                  {j \in DOMAIN uses : uses[j].user_id =
                                       ResolvedUser(user_id, card_UUID)}}
                         ELSE {}]
        /\ UNCHANGED <<roles, machine_types, users, machines, uses, now,
                       calls, maintenances, interventions,
                       tracker>>

\* The method isMachineCurrentlyUsed as a call of its own: the machine is
\* validated, then the active uses of the machine are counted.
isMachineCurrentlyUsedCall(machine_id) ==
    LET err == IF ~_validateMachine(machine_id) THEN "InvalidId" ELSE "ok"
    IN  /\ ret' = [Ret("isMachineCurrentlyUsed", machine_id, None, NoCard,
                       err)
                     EXCEPT !.used = IF err = "ok"
                                     THEN isMachineCurrentlyUsed(machine_id)
                                     ELSE FALSE]
        /\ UNCHANGED <<roles, machine_types, users, machines, uses, now,
                       calls, maintenances, interventions,
                       tracker>>

\* getCurrentlyUsedMachines: Machine.from_dict is applied to the integer
\* r["machine_id"] of each active use, and from_dict is cls(**dict_data), so
\* the first active use raises TypeError; with no active use the list
\* comprehension is empty and the call returns [].
getCurrentlyUsedMachines ==
    LET active == {i \in DOMAIN uses : uses[i].end_timestamp = None}
    IN  /\ ret' = Ret("getCurrentlyUsedMachines", None, None, NoCard,
                      IF active = {} THEN "ok" ELSE "TypeError")
        /\ UNCHANGED <<roles, machine_types, users, machines, uses, now,
                       calls, maintenances, interventions,
                       tracker>>

\* Sessions with timestamps, read by the queries on users.  The callers
\* name user 1 by user_id or name nobody.
NextQuery ==
    \/ \E m \in MachineIds, u \in {1, None} : startUse(m, u, NoCard, None)
    \/ \E m \in MachineIds, u \in {1, None} : endUse(m, u, NoCard, None)
    \/ \E u \in UserIds \cup {Max(UserIds) + 1} : getUserTotalTime(u)
    \/ \E u \in {1, None} : getUserUses(u, NoCard)
    \/ \E u \in {1, None} : isUserAuthroizedForMachine(0, u, NoCard)

SpecQuery == InitPopulated /\ [][NextQuery]_vars

\* Concurrent startUse and sequential endUse, read by the queries on
\* machines.
NextUsed ==
    \/ \E p \in Procs, m \in MachineIds, u \in {1} :
           StartCall(p, m, u, NoCard, 0)
    \/ \E p \in Procs : CheckUsed(p)
    \/ \E p \in Procs : CountUses(p)
    \/ \E p \in Procs : SortUses(p)
    \/ \E p \in Procs : InsertUse(p)
    \/ \E m \in MachineIds : endUse(m, 1, NoCard, 0)
    \/ \E m \in MachineIds \cup {Max(MachineIds) + 1} :
           isMachineCurrentlyUsedCall(m)
    \/ getCurrentlyUsedMachines

SpecUsed == InitPopulated /\ [][NextUsed]_vars

\* ------------------------------------------------------------- the logs
\* The operations that write uses and interventions, with the operations
\* that remove or renumber the documents they refer to.
NextLog ==
    \/ \E m \in MachineIds : startUse(m, 1, NoCard, 0)
    \/ \E m \in MachineIds, t \in {0, 1} : endUse(m, 1, NoCard, t)
    \/ addMaintenance(0, NoText, None)
    \/ addIntervention(0, 0, 1, 0)
    \/ removeMaintenance(0)
    \/ removeMachine(0)
    \/ setUserId(1, Max(UserIds) + 1)

SpecLog == InitPopulated /\ [][NextLog]_vars

\* ------------------------------------------------------ MQTTInterface
setMessageCallback(callback) ==
    /\ mqtt' = [mqtt EXCEPT !.messageCallback = callback]
    /\ delivery' = Event("setMessageCallback", <<>>, "", {})
    /\ UNCHANGED <<store, now, ret, calls, backend>>

isMachineAuthorizedCallback(callback) ==
    /\ mqtt' = [mqtt EXCEPT !.isMachineAuthorizedCallback = callback]
    /\ delivery' = Event("isMachineAuthorizedCallback", <<>>, "", {})
    /\ UNCHANGED <<store, now, ret, calls, backend>>

setMachineAliveCallback(callback) ==
    /\ mqtt' = [mqtt EXCEPT !.machineAliveCallback = callback]
    /\ delivery' = Event("setMachineAliveCallback", <<>>, "", {})
    /\ UNCHANGED <<store, now, ret, calls, backend>>

\* connect installs _onMessage and subscribes to _topic.
connect ==
    /\ mqtt' = [mqtt EXCEPT !.connected = TRUE]
    /\ delivery' = Event("connect", <<>>, "", {})
    /\ UNCHANGED <<store, now, ret, calls, backend>>

_onDisconnect ==
    /\ mqtt.connected
    /\ mqtt' = [mqtt EXCEPT !.connected = FALSE]
    /\ delivery' = Event("_onDisconnect", <<>>, "", {})
    /\ UNCHANGED <<store, now, ret, calls, backend>>

\* A faulty extraction: the prefix of the topic is not tested.
_extractMachineFromTopic_anyTopic(topic) == topic[Len(topic)]

\* `topic.startswith(self._topic[:-1])`: _topic without its last character,
\* the wildcard, is the leading segments followed by "/", so the topic has to
\* have these segments and at least one more; the result is the last segment
\* of the topic.
_extractMachineFromTopic(topic) ==
    LET prefix == SubSeq(_topic, 1, Len(_topic) - 1)
    IN  IF Len(topic) > Len(prefix) /\ SubSeq(topic, 1, Len(prefix)) = prefix
        THEN topic[Len(topic)]
        ELSE NoMachine

\* _onMessage: the raw-message callback sees every message; a message whose
\* topic gives no machine (None or the empty string) is dropped; the connect
\* sentinel adds the machine to _awaiting_authorization and calls the
\* authorization callback, the alive sentinel calls the alive callback, each
\* if it is set.  The callbacks of a client write no field of the interface.
_onMessage(topic, payload) ==
    LET raw == IF mqtt.messageCallback # NoCallback
               THEN {<<"message", payload>>} ELSE {}
        machine == _extractMachineFromTopic(topic)
        dropped == machine = NoMachine \/ machine = ""
        isConnect == ~dropped /\ payload = _connect_message
        isAlive == ~dropped /\ payload # _connect_message
                            /\ payload = _alive_message
        called ==
            IF isConnect /\ mqtt.isMachineAuthorizedCallback # NoCallback
            THEN {<<"isMachineAuthorizedCallback", machine>>}
            ELSE IF isAlive /\ mqtt.machineAliveCallback # NoCallback
            THEN {<<"machineAliveCallback", machine>>}
            ELSE {}
    IN  /\ mqtt.connected
        /\ mqtt' = IF isConnect
                   THEN [mqtt EXCEPT !.awaiting_authorization =
                                         @ \cup {machine}]
                   ELSE mqtt
        /\ delivery' = Event("_onMessage", topic, payload, raw \cup called)
        /\ UNCHANGED <<store, now, ret, calls, backend>>

\* ------------------------------------------------------------- Backend
\* Backend.__init__ as main() runs it: the MQTTInterface is made and
\* machineAlive is set as its alive callback; the next line calls
\* isMachicineAuthorizedCallback, which MQTTInterface does not have, and
\* raises AttributeError.  _last_alive is assigned after that line, so it is
\* never assigned, and main() ends before connect.
Backend__init__ ==
    /\ backend.pc = "none"
    /\ backend' = [backend EXCEPT !.pc = "failed",
                                  !.err = "AttributeError",
                                  !.machineAliveCallback = "machineAlive"]
    /\ delivery' = Event("Backend", <<>>, "", {})
    /\ UNCHANGED <<store, now, ret, calls, mqtt>>

NextMqtt ==
    \/ \E c \in Callbacks : setMessageCallback(c)
    \/ \E c \in Callbacks : isMachineAuthorizedCallback(c)
    \/ \E c \in Callbacks : setMachineAliveCallback(c)
    \/ connect
    \/ _onDisconnect
    \/ \E t \in Topics, p \in Payloads : _onMessage(t, p)
    \/ Backend__init__

SpecMqtt == InitEmpty /\ [][NextMqtt]_vars

\* ------------------------------------------------------------ removals
\* The four removals of referenced documents on the store InitPopulated,
\* with the operations that create the references (a maintenance attached to
\* machine 0, interventions and uses by user 1) and the Adds that store a
\* removed id again.
NextRemove ==
    \/ \E r \in RoleIds : removeRole(r)
    \/ \E t \in TypeIds : removeMachineType(t)
    \/ \E m \in MachineIds : removeMachine(m)
    \/ \E i \in MaintenanceIds : removeMaintenance(i)
    \/ addRole(0, "a", TRUE)
    \/ addMachineType(0, "a")
    \/ addMaintenance(0, NoText, None)
    \/ addMachineMaintenance(0, 0)
    \/ \E m \in MachineIds : addIntervention(0, m, 1, 0)
    \/ \E m \in MachineIds : startUse(m, 1, NoCard, 0)

SpecRemove == InitPopulated /\ [][NextRemove]_vars

\* ------------------------------------------- maintenances of a machine
\* removeMachineMaintenance: the maintenance, then the machine is validated;
\* len() of the list raises TypeError on the null list of a machine that
\* never had a maintenance, an empty list raises InvalidIdException, and
\* otherwise $pull takes every occurrence of the id out of the list.
removeMachineMaintenance(machine_id, maintenance_id) ==
    LET hit == {m \in machines : m.machine_id = machine_id}
        err == IF ~_validateMaintenance(maintenance_id) THEN "InvalidId"
               ELSE IF ~_validateMachine(machine_id) THEN "InvalidId"
               ELSE IF \E m \in hit : m.maintenances = NoSeq
                    THEN "TypeError"
               ELSE IF \E m \in hit : m.maintenances = <<>> THEN "InvalidId"
               ELSE "ok"
        pull(m) == SelectSeq(m.maintenances, LAMBDA i : i # maintenance_id)
    IN  /\ machines' = IF err = "ok"
                       THEN {IF m.machine_id = machine_id
                             THEN [m EXCEPT !.maintenances = pull(m)]
                             ELSE m : m \in machines}
                       ELSE machines
        /\ ret' = [Ret("removeMachineMaintenance", machine_id, None, NoCard,
                       err) EXCEPT !.maintenance_id = maintenance_id]
        /\ UNCHANGED <<roles, machine_types, users, uses, maintenances,
                       interventions, now, calls, tracker>>

NextAttach ==
    \/ \E h \in Hours : addMaintenance(h, NoText, None)
    \/ \E i \in MaintenanceIds : removeMaintenance(i)
    \/ \E m \in MachineIds, i \in MaintenanceIds :
           addMachineMaintenance(m, i)
    \/ \E m \in MachineIds \cup {Max(MachineIds) + 1},
          i \in MaintenanceIds :
           removeMachineMaintenance(m, i)
    \/ removeMachine(1)

SpecAttach == InitPopulated /\ [][NextAttach]_vars

\* ------------------------------------------- sessions and authorization
\* startUse and endUse by users of a role with and without authorize_all, on
\* the store InitAuth, with the Adds and the grants that decide
\* isUserAuthroizedForMachine.
NextGate ==
    \/ \E r \in RoleIds : addUser(r, None, NoCard)
    \/ addMachineType(0, "a")
    \/ \E m \in MachineIds : addMachine(m, "a", 0, 0)
    \/ \E u \in UserIds, ids \in SUBSET {0} : setUserAuthorization(u, ids)
    \/ \E m \in MachineIds, u \in UserIds :
           isUserAuthroizedForMachine(m, u, NoCard)
    \/ \E m \in MachineIds : startUse(m, 1, NoCard, 0)
    \/ \E m \in MachineIds : endUse(m, 1, NoCard, 0)

SpecGate == InitAuth /\ [][NextGate]_vars

\* ------------------------------------- authorization after removals
\* isUserAuthroizedForMachine on the store InitAuth while roles and machine
\* types are removed under the users and machines that refer to them.
NextDangling ==
    \/ \E r \in RoleIds, c \in OptCards : addUser(r, None, c)
    \/ addMachineType(0, "a")
    \/ \E m \in MachineIds : addMachine(m, "a", 0, 0)
    \/ \E u \in UserIds, ids \in SUBSET {0} : setUserAuthorization(u, ids)
    \/ \E r \in RoleIds : removeRole(r)
    \/ \E t \in TypeIds : removeMachineType(t)
    \/ \E m \in MachineIds, id \in Identities :
           isUserAuthroizedForMachine(m, id[1], id[2])

SpecDangling == InitAuth /\ [][NextDangling]_vars

\* ================================================================ claims
\* The user a call names by an explicit user_id exists.
ExplicitUser(user_id) == user_id \in UserIds /\ _validateUser(user_id)

\* C1: after any sequence of whole operations (startUse, endUse, addMachine,
\* removeMachine, addUser, setUserId, setUserCardUUID) every machine_id has at
\* most one use whose end_timestamp is null.
C1_AtMostOneActive ==
    \A m \in MachineIds : Cardinality(ActiveUses(m)) <= 1

\* A startUse by an existing user, named by a user_id that is not 0, on an
\* existing machine with an active use has just been refused.
C1_Witness ==
    /\ ret.op = "startUse" /\ ret.err = "InvalidId"
    /\ ret.user_id # 0 /\ ExplicitUser(ret.user_id)
    /\ _validateMachine(ret.machine_id)
    /\ Cardinality(ActiveUses(ret.machine_id)) = 1
    /\ \E i \in DOMAIN uses : uses[i].end_timestamp # None

\* C2: when startUse calls run concurrently, their store steps interleaved,
\* no two uses with a null end_timestamp are ever stored for one machine.
C2_NoTwoActiveUnderRace ==
    \A i \in DOMAIN uses : \A j \in DOMAIN uses :
        (/\ i < j
         /\ uses[i].end_timestamp = None
         /\ uses[j].end_timestamp = None)
        => uses[i].machine_id # uses[j].machine_id

\* C3: a startUse on a machine that has an active use, by an existing user,
\* fails with a Conflict error and leaves the uses unchanged.
C3_ConflictOnActive ==
    [][(/\ ret'.op = "startUse"
        /\ ExplicitUser(ret'.user_id)
        /\ _validateMachine(ret'.machine_id)
        /\ ActiveUses(ret'.machine_id) # {})
       => (ret'.err = "Conflict" /\ uses' = uses)]_vars

\* C4: endUse(machine, user) for an existing machine and an existing user with
\* no active use of that user on that machine fails with InvalidQuery and
\* modifies no use.
C4_EndWithoutActive ==
    [][(/\ ret'.op = "endUse"
        /\ ExplicitUser(ret'.user_id)
        /\ _validateMachine(ret'.machine_id)
        /\ ~_isUserCurrentlyUsing(ret'.machine_id, ret'.user_id))
       => (ret'.err = "InvalidQuery" /\ uses' = uses)]_vars

\* C5: a successful endUse returns the end_timestamp minus the
\* start_timestamp of the use it closed.
C5_DurationOfClosedUse ==
    [][(ret'.op = "endUse" /\ ret'.err = "ok")
       => \E i \in DOMAIN uses :
              /\ uses[i].end_timestamp = None
              /\ uses'[i].end_timestamp # None
              /\ ret'.duration =
                     uses'[i].end_timestamp - uses'[i].start_timestamp]_vars

\* C6: every closed use has end_timestamp >= start_timestamp and no endUse
\* returns a negative duration (an endUse whose timestamp precedes the start
\* is refused).
C6_NoNegativeDuration ==
    /\ \A i \in DOMAIN uses :
           uses[i].end_timestamp # None
               => uses[i].end_timestamp >= uses[i].start_timestamp
    /\ (ret.op = "endUse" /\ ret.err = "ok") => ret.duration >= 0

\* The positions of the user an isAuthorized call names: the user with the
\* given user_id, or without a user_id the first holder of the given card.
AuthSubject ==
    IF ret.user_id # None
    THEN {i \in DOMAIN users : users[i].user_id = ret.user_id}
    ELSE IF ret.card_UUID # NoCard /\ CardMatches(ret.card_UUID) # {}
         THEN {Min(CardMatches(ret.card_UUID))}
    ELSE {}

\* The stored roles a user document refers to.
RolesOf(i) == {r \in roles : r.role_id = users[i].role_id}

\* The machine_type stored for a machine_id.
TypeOf(machine_id) ==
    {m.machine_type : m \in {x \in machines : x.machine_id = machine_id}}

\* C7: for an existing machine and an existing user whose role has
\* authorize_all, isAuthorized returns true whatever the user's
\* authorization_ids are.
C7_AuthorizeAll ==
    (ret.op = "isAuthorized" /\ _validateMachine(ret.machine_id))
    => \A i \in AuthSubject : \A r \in RolesOf(i) :
           r.authorize_all => (ret.err = "ok" /\ ret.authorized)

\* isAuthorized has just returned true for a user of an authorize_all role
\* whose authorization_ids do not contain the machine's type.
C7_Witness ==
    /\ ret.op = "isAuthorized" /\ ret.err = "ok" /\ ret.authorized
    /\ \E i \in AuthSubject :
           /\ \E r \in RolesOf(i) : r.authorize_all
           /\ TypeOf(ret.machine_id) \cap users[i].authorization_ids = {}

C10_SetAuthorization ==
    [][ret'.op = "setUserAuthorization"
       => /\ IF \A t \in ret'.ids : _validateMachineType(t)
             THEN /\ ret'.err = "ok"
                  /\ users' = [i \in DOMAIN users |->
                        IF users[i].user_id = ret'.user_id
                        THEN [users[i] EXCEPT
                                  !.authorization_ids = ret'.ids]
                        ELSE users[i]]
             ELSE ret'.err = "InvalidId" /\ users' = users
          /\ UNCHANGED <<roles, machine_types, machines, uses, maintenances,
                         interventions>>]_vars

\* setUserAuthorization has just replaced the grants of an existing user by
\* a non-empty list that leaves out an existing MachineType.
C10_Witness ==
    /\ ret.op = "setUserAuthorization" /\ ret.err = "ok"
    /\ ret.ids # {}
    /\ \E t \in machine_types : t.type_id \notin ret.ids
    /\ \E i \in DOMAIN users :
           /\ users[i].user_id = ret.user_id
           /\ users[i].authorization_ids = ret.ids

\* The call was an Add that named an id which its collection held before
\* the call.
DuplicateAdd ==
    \/ /\ ret'.op = "addRole"
       /\ \E r \in roles : r.role_id = ret'.role_id
    \/ /\ ret'.op = "addMachineType"
       /\ \E t \in machine_types : t.type_id = ret'.type_id
    \/ /\ ret'.op = "addUser" /\ ret'.user_id # None
       /\ \E i \in DOMAIN users : users[i].user_id = ret'.user_id
    \/ /\ ret'.op = "addMachine"
       /\ \E m \in machines : m.machine_id = ret'.machine_id
    \/ /\ ret'.op = "addMaintenance" /\ ret'.maintenance_id # None
       /\ \E m \in maintenances : m.maintenance_id = ret'.maintenance_id

\* The Role or MachineType an Add refers to is stored (Adds of the other
\* kinds refer to nothing).
ReferenceStored ==
    /\ ret'.op = "addUser" => _validateRole(ret'.role_id)
    /\ ret'.op = "addMachine" => _validateMachineType(ret'.type_id)

\* C11 as stated: an Add (Role, MachineType, User, Machine, Maintenance) with
\* an explicit id that is already present in its collection fails with
\* DuplicateId and leaves the collection unchanged.
C11_DuplicateAddFails ==
    [][DuplicateAdd
       => (ret'.err = "DuplicatedId" /\ UNCHANGED store)]_vars

\* C11 amended: such an Add fails and leaves the collection unchanged; it
\* fails with DuplicateId when the Role or MachineType it refers to exists
\* (the reference is validated before the insert).
C11_DuplicateAddWithReference ==
    [][DuplicateAdd
       => /\ ret'.err # "ok" /\ UNCHANGED store
          /\ ReferenceStored => ret'.err = "DuplicatedId"]_vars

\* An addUser naming the id of a stored user and a role that is not stored
\* has just failed with InvalidId.
C11_Witness ==
    /\ ret.op = "addUser" /\ ret.err = "InvalidId"
    /\ ret.user_id # None /\ _validateUser(ret.user_id)
    /\ ~_validateRole(ret.role_id)

\* C15: addMachine with a machine_type that is not the id of an existing
\* MachineType fails with InvalidId and inserts no machine.
C15_AddMachineUnknownType ==
    [][(ret'.op = "addMachine" /\ ~_validateMachineType(ret'.type_id))
       => (ret'.err = "InvalidId" /\ machines' = machines)]_vars

\* C20: a Remove (Role, MachineType, Machine, Maintenance) returns without
\* error, leaves no record with the given id in its collection, keeps every
\* other record and every other collection; so a Remove of an absent id
\* changes nothing and a second Remove of the same id changes nothing more.
C20_RemoveIdempotent ==
    [][/\ ret'.op = "removeRole"
          => /\ ret'.err = "ok"
             /\ roles' = {r \in roles : r.role_id # ret'.role_id}
             /\ UNCHANGED <<machine_types, users, machines, uses,
                            maintenances, interventions>>
       /\ ret'.op = "removeMachineType"
          => /\ ret'.err = "ok"
             /\ machine_types' =
                    {t \in machine_types : t.type_id # ret'.type_id}
             /\ UNCHANGED <<roles, users, machines, uses, maintenances,
                            interventions>>
       /\ ret'.op = "removeMachine"
          => /\ ret'.err = "ok"
             /\ machines' =
                    {m \in machines : m.machine_id # ret'.machine_id}
             /\ UNCHANGED <<roles, machine_types, users, uses, maintenances,
                            interventions>>
       /\ ret'.op = "removeMaintenance"
          => /\ ret'.err = "ok"
             /\ maintenances' =
                    {m \in maintenances :
                         m.maintenance_id # ret'.maintenance_id}
             /\ UNCHANGED <<roles, machine_types, users, machines, uses,
                            interventions>>]_vars

\* removeMaintenance has just returned for an id that is not stored, another
\* maintenance being stored.
C20_Witness ==
    /\ ret.op = "removeMaintenance" /\ ret.err = "ok"
    /\ ~_validateMaintenance(ret.maintenance_id)
    /\ maintenances # {}

\* The id an Add without id is to assign on a collection holding the ids S.
ExpectedId(S) == IF S = {} THEN 0 ELSE Max(S) + 1

\* C12: an Add that omits the id (addUser, addMaintenance, addIntervention,
\* startUse) on a collection holding the ids S stores one new record with id
\* 0 when S is empty and max(S) + 1 otherwise; the interventions and the
\* uses, which are only ever added without id, hold the ids 0..N-1 in call
\* order.
C12_NextId ==
    [][/\ (ret'.op = "addUser" /\ ret'.user_id = None /\ ret'.err = "ok")
          => /\ Len(users') = Len(users) + 1
             /\ users'[Len(users')].user_id =
                    ExpectedId({users[i].user_id : i \in DOMAIN users})
             /\ ret'.new_id = users'[Len(users')].user_id
       /\ (/\ ret'.op = "addMaintenance" /\ ret'.maintenance_id = None
           /\ ret'.err = "ok")
          => /\ ret'.new_id =
                    ExpectedId({m.maintenance_id : m \in maintenances})
             /\ \E m \in maintenances' :
                    /\ m.maintenance_id = ret'.new_id
                    /\ maintenances' = maintenances \cup {m}
       /\ (ret'.op = "addIntervention" /\ ret'.err = "ok")
          => /\ Len(interventions') = Len(interventions) + 1
             /\ interventions'[Len(interventions')].intervention_id =
                    ExpectedId({interventions[i].intervention_id :
                                    i \in DOMAIN interventions})
             /\ ret'.new_id = Len(interventions)
       /\ (ret'.op = "startUse" /\ ret'.err = "ok")
          => /\ Len(uses') = Len(uses) + 1
             /\ uses'[Len(uses')].use_id =
                    ExpectedId({uses[i].use_id : i \in DOMAIN uses})
       /\ \A i \in DOMAIN interventions' :
              interventions'[i].intervention_id = i - 1
       /\ \A i \in DOMAIN uses' : uses'[i].use_id = i - 1]_vars

\* An addMaintenance without id has just returned an id above the number of
\* maintenances stored before it (a lower id is free), and two interventions
\* are stored.
C12_Witness ==
    /\ ret.op = "addMaintenance" /\ ret.maintenance_id = None
    /\ ret.err = "ok"
    /\ ret.new_id >= Cardinality(maintenances)
    /\ Len(interventions) = MaxInterventions

AbsentReference ==
    \/ /\ ret'.op \in {"addUser", "setUserRole"}
       /\ ~_validateRole(ret'.role_id)
    \/ /\ ret'.op = "setMachineMachineType"
       /\ ~_validateMachineType(ret'.type_id)
    \/ /\ ret'.op = "addMachineMaintenance"
       /\ \/ ~_validateMaintenance(ret'.maintenance_id)
          \/ ~_validateMachine(ret'.machine_id)
    \/ /\ ret'.op = "addIntervention"
       /\ \/ ~_validateMaintenance(ret'.maintenance_id)
          \/ ~_validateMachine(ret'.machine_id)
          \/ ~_validateUser(ret'.user_id)

\* C14: addUser and setUserRole with an absent role, setMachineMachineType
\* with an absent type, addMachineMaintenance with an absent maintenance or
\* machine, and addIntervention with an absent maintenance, machine or user
\* fail with InvalidId and leave every collection unchanged.
C14_ReferenceValidated ==
    [][AbsentReference
       => (ret'.err = "InvalidId" /\ UNCHANGED store)]_vars

\* An addIntervention naming a stored maintenance, a stored machine and a
\* user_id that no user has was just refused with InvalidId.
C14_Witness ==
    /\ ret.op = "addIntervention" /\ ret.err = "InvalidId"
    /\ _validateMaintenance(ret.maintenance_id)
    /\ _validateMachine(ret.machine_id)
    /\ ~_validateUser(ret.user_id)

\* C18: in every reachable state the maintenance_id, machine_id and user_id
\* of every intervention are the ids of a stored Maintenance, Machine and
\* User.
C18_InterventionReferences ==
    \A i \in DOMAIN interventions :
        /\ _validateMaintenance(interventions[i].maintenance_id)
        /\ _validateMachine(interventions[i].machine_id)
        /\ _validateUser(interventions[i].user_id)

\* C16: in every reachable state the role_id of every user is the id of a
\* stored Role, and every id in the user's authorization_ids is the id of a
\* stored MachineType.
C16_UserReferences ==
    \A i \in DOMAIN users :
        /\ _validateRole(users[i].role_id)
        /\ users[i].authorization_ids # NoList
               => \A t \in users[i].authorization_ids :
                      _validateMachineType(t)

\* C17: in every reachable state the machine_type of every machine is the id
\* of a stored MachineType.
C17_MachineTypeReference ==
    \A m \in machines : _validateMachineType(m.machine_type)

\* The call was a Set operation with valid referenced values on an id that
\* its collection did not hold before the call.
SetOnAbsentId ==
    \/ /\ ret'.op = "editRoleName"
       /\ \A r \in roles : r.role_id # ret'.role_id
    \/ /\ ret'.op = "editMachineTypeName"
       /\ \A t \in machine_types : t.type_id # ret'.type_id
    \/ /\ ret'.op \in {"setUserCardUUID", "setUserId"}
       /\ \A i \in DOMAIN users : users[i].user_id # ret'.user_id
    \/ /\ ret'.op = "setUserRole" /\ _validateRole(ret'.role_id)
       /\ \A i \in DOMAIN users : users[i].user_id # ret'.user_id
    \/ /\ ret'.op = "setUserAuthorization"
       /\ \A t \in ret'.ids : _validateMachineType(t)
       /\ \A i \in DOMAIN users : users[i].user_id # ret'.user_id
    \/ /\ ret'.op \in {"setMachinesHours", "setMachineName"}
       /\ \A m \in machines : m.machine_id # ret'.machine_id
    \/ /\ ret'.op = "setMachineMachineType"
       /\ _validateMachineType(ret'.type_id)
       /\ \A m \in machines : m.machine_id # ret'.machine_id
    \/ /\ ret'.op \in {"setMaintenanceDescription",
                       "setMaintenanceHoursBetween"}
       /\ \A m \in maintenances : m.maintenance_id # ret'.maintenance_id

\* C19: a Set operation whose referenced values are valid, applied to an id
\* that its collection does not hold, returns without error and leaves
\* every collection unchanged.
C19_SetOnAbsentIsNoOp ==
    [][SetOnAbsentId => (ret'.err = "ok" /\ UNCHANGED store)]_vars

\* setUserId has just returned without error for a user_id that no user has,
\* the new id being the id of a stored user.
C19_Witness ==
    /\ ret.op = "setUserId" /\ ret.err = "ok"
    /\ \A i \in DOMAIN users : users[i].user_id # ret.user_id
    /\ \E i \in DOMAIN users : users[i].user_id = ret.new_id

\* The positions of the closed uses of a user in the collection c.
ClosedUsesOf(c, user_id) ==
    {i \in DOMAIN c : c[i].user_id = user_id /\ c[i].end_timestamp # None}

RECURSIVE SumOfDurations(_, _)
SumOfDurations(c, S) ==
    IF S = {} THEN 0
    ELSE LET i == CHOOSE x \in S : TRUE
         IN  (c[i].end_timestamp - c[i].start_timestamp) +
             SumOfDurations(c, S \ {i})

\* What getUserTotalTime has to return for a user in the collection c.
ExpectedTotal(c, user_id) == SumOfDurations(c, ClosedUsesOf(c, user_id))

C21_ResultIsSum ==
    (ret.op = "getUserTotalTime" /\ ret.err = "ok")
        => ret.duration = ExpectedTotal(uses, ret.user_id)

\* A step that leaves every stored use of a user as it is (it may add uses
\* of that user, and may add or close uses of other users) leaves the total
\* of that user as it is.
C21_OtherSessionsKeepTotal ==
    \A u \in UserIds :
        (/\ Len(uses') >= Len(uses)
         /\ \A i \in DOMAIN uses : uses[i].user_id = u => uses'[i] = uses[i])
            => ExpectedTotal(uses', u) = ExpectedTotal(uses, u)

\* C21: getUserTotalTime(user) is the sum of end_timestamp - start_timestamp
\* over exactly the uses of that user whose end_timestamp is set, and neither
\* starting a use for that user nor starting or ending a use of another user
\* changes it.
C21_TotalTime == []C21_ResultIsSum /\ [][C21_OtherSessionsKeepTotal]_vars

\* getUserTotalTime answered with a positive total for a user who has a
\* closed use and an active one.
C21_Witness ==
    /\ ret.op = "getUserTotalTime"
    /\ ret.err = "ok"
    /\ ret.duration > 0
    /\ \E i \in DOMAIN uses : /\ uses[i].user_id = ret.user_id
                              /\ uses[i].end_timestamp = None

\* The number of stored uses of a machine whose end_timestamp is null.
ActiveCount(machine_id) ==
    Cardinality({i \in DOMAIN uses : /\ uses[i].machine_id = machine_id
                                     /\ uses[i].end_timestamp = None})

\* C22: for an existing machine isMachineCurrentlyUsed returns true exactly
\* when one use of that machine with a null end_timestamp is stored: it
\* returns false with no such use and false with two or more.
C22_UsedIffOneActive ==
    (ret.op = "isMachineCurrentlyUsed" /\ ret.err = "ok")
        => /\ ret.used <=> (ActiveCount(ret.machine_id) = 1)
           /\ ActiveCount(ret.machine_id) = 0 => ~ret.used
           /\ ActiveCount(ret.machine_id) >= 2 => ~ret.used

\* isMachineCurrentlyUsed answered false for a machine with two active uses.
C22_Witness ==
    /\ ret.op = "isMachineCurrentlyUsed"
    /\ ret.err = "ok"
    /\ ~ret.used
    /\ ActiveCount(ret.machine_id) >= 2

\* C23: getCurrentlyUsedMachines succeeds and returns exactly the machines
\* for which a use with a null end_timestamp is stored, so that it is
\* non-empty when some machine is active and agrees with
\* isMachineCurrentlyUsed on every machine.
C23_UsedMachines ==
    ret.op = "getCurrentlyUsedMachines"
        => /\ ret.err = "ok"
           /\ ret.ids = {m \in MachineIds : ActiveCount(m) > 0}
           /\ \A m \in MachineIds :
                  (_validateMachine(m) /\ isMachineCurrentlyUsed(m))
                      => m \in ret.ids

\* The last call is one of the four operations that take an identity, and it
\* was given neither a user_id nor a card_UUID.
NoIdentityCall(r) ==
    /\ r.op \in {"startUse", "endUse", "getUserUses", "isAuthorized"}
    /\ r.user_id = None
    /\ r.card_UUID = NoCard

C24_NoIdentityStep ==
    NoIdentityCall(ret') => (ret'.err = "InvalidQuery" /\ UNCHANGED store)

\* C24: startUse, endUse, getUserUses and isAuthorized called with neither a
\* user_id nor a card_UUID fail with InvalidQuery and change no state; no use
\* is opened or closed for a user who has no card.
C24_NoIdentityIsInvalidQuery == [][C24_NoIdentityStep]_vars

\* The identity of a call resolves to no stored user: an explicit user_id
\* that no user has, or a card_UUID that no user holds.
UnresolvedIdentity(user_id, card_UUID) ==
    \/ user_id # None /\ \A i \in DOMAIN users : users[i].user_id # user_id
    \/ /\ user_id = None
       /\ card_UUID # NoCard
       /\ \A i \in DOMAIN users : users[i].card_UUID # card_UUID

C25_StartUnknownStep ==
    (/\ ret'.op = "startUse"
     /\ \/ UnresolvedIdentity(ret'.user_id, ret'.card_UUID)
        \/ \A m \in machines : m.machine_id # ret'.machine_id)
        => (ret'.err = "InvalidId" /\ uses' = uses)

\* C25: startUse with an identity that resolves to no stored user, or with a
\* machine_id that no machine has, fails with InvalidId and stores no use.
C25_StartUnknownIsInvalidId == [][C25_StartUnknownStep]_vars

\* A startUse or endUse step that names an existing user by user_id writes
\* only a use of that user: the use it appends, or the use it closes, has
\* that user_id; and it does not die in the card lookup.
C29_ExplicitUserStep ==
    (/\ ret'.op \in {"startUse", "endUse"}
     /\ ExplicitUser(ret'.user_id))
        => /\ ret'.err # "TypeError"
           /\ Len(uses') > Len(uses)
                  => uses'[Len(uses')].user_id = ret'.user_id
           /\ \A i \in DOMAIN uses :
                  uses'[i] # uses[i] => uses[i].user_id = ret'.user_id

\* C29: startUse and endUse called with the explicit user_id of an existing
\* user act on that user, for every user_id including 0 and whatever cards
\* the users hold: the user_id is never replaced by a card lookup.
C29_ExplicitUserIsUsed == [][C29_ExplicitUserStep]_vars

C30_LogStep ==
    /\ Len(uses') >= Len(uses)
    /\ \A i \in DOMAIN uses :
           /\ uses'[i].use_id = uses[i].use_id
           /\ uses[i].end_timestamp # None => uses'[i] = uses[i]
    /\ Len(interventions') >= Len(interventions)
    /\ \A i \in DOMAIN interventions : interventions'[i] = interventions[i]

\* C30: a use whose end_timestamp is set is never changed again (a later
\* endUse by the same user on the same machine included), no use is deleted,
\* and no intervention is deleted or modified.
C30_LogsAppendOnly == [][C30_LogStep]_vars

\* An endUse refused for a user who has a closed use on that machine, with an
\* intervention stored.
C30_Witness ==
    /\ ret.op = "endUse"
    /\ ret.err = "InvalidQuery"
    /\ \E i \in DOMAIN uses : /\ uses[i].user_id = ret.user_id
                              /\ uses[i].machine_id = ret.machine_id
                              /\ uses[i].end_timestamp # None
    /\ interventions # <<>>

\* The topic of a message lies under the base topic "machines" and its last
\* segment names a machine.
UnderBaseTopic(topic) ==
    Len(topic) >= 2 /\ topic[1] = "machines" /\ topic[Len(topic)] # ""

\* The machine callbacks (not the raw-message hook) a delivery invoked.
MachineCallbacks(d) == {f \in d.fired : f[1] # "message"}

\* The liveness maps and the awaiting set are as they were.
TrackerUnchanged ==
    /\ mqtt'.awaiting_authorization = mqtt.awaiting_authorization
    /\ mqtt'.machineAlive = mqtt.machineAlive
    /\ backend'.last_alive = backend.last_alive

C26_DispatchStep ==
    LET d == delivery'
        m == d.topic[Len(d.topic)]
    IN  d.op = "_onMessage" =>
          IF UnderBaseTopic(d.topic)
          THEN /\ d.payload = _connect_message =>
                    /\ MachineCallbacks(d) \subseteq
                           {<<"isMachineAuthorizedCallback", m>>}
                    /\ mqtt.isMachineAuthorizedCallback # NoCallback
                           => MachineCallbacks(d) # {}
               /\ d.payload = _alive_message =>
                    /\ MachineCallbacks(d) \subseteq
                           {<<"machineAliveCallback", m>>}
                    /\ mqtt.machineAliveCallback # NoCallback
                           => MachineCallbacks(d) # {}
               /\ d.payload \notin {_connect_message, _alive_message} =>
                    (MachineCallbacks(d) = {} /\ TrackerUnchanged)
          ELSE MachineCallbacks(d) = {} /\ TrackerUnchanged

\* C26: for a message on a topic under the base topic, whose last segment is
\* the machine id, the connect sentinel invokes only the authorization
\* callback for that machine, the alive sentinel only the alive callback for
\* that machine, and any other payload invokes neither and leaves the
\* awaiting set and the liveness map as they are; a message on a topic
\* outside the base topic invokes neither.
C26_Dispatch == [][C26_DispatchStep]_vars

\* A connect message for m1 was dispatched to the authorization callback with
\* an alive callback set as well, m0 already awaiting.
C26_Witness ==
    /\ delivery.op = "_onMessage"
    /\ delivery.topic = <<"machines", "m1">>
    /\ delivery.payload = _connect_message
    /\ delivery.fired = {<<"isMachineAuthorizedCallback", "m1">>}
    /\ mqtt.machineAliveCallback # NoCallback
    /\ mqtt.awaiting_authorization = {"m0", "m1"}

\* The times the program holds as last seen for a machine, in the dict of
\* the Backend and in the dict of the interface.
LastSeen(b, i, machine) ==
    {p[2] : p \in {q \in b.last_alive \cup i.machineAlive : q[1] = machine}}

C27_HeartbeatStep ==
    LET d == delivery'
    IN  (/\ d.op = "_onMessage"
         /\ UnderBaseTopic(d.topic)
         /\ d.payload = _alive_message)
            => LastSeen(backend', mqtt', d.topic[Len(d.topic)]) = {now'}

\* The construction of the Backend leaves it with an empty liveness map.
C27_StartupStep ==
    (backend.pc = "none" /\ backend'.pc # "none")
        => (backend'.pc = "constructed" /\ backend'.last_alive = {})

\* C27: the liveness map is empty at startup, and a heartbeat for machine m
\* sets lastSeen[m] to the current time.
C27_HeartbeatRecorded == [][C27_StartupStep /\ C27_HeartbeatStep]_vars

C28_ConnectStep ==
    LET d == delivery'
    IN  (/\ d.op = "_onMessage"
         /\ UnderBaseTopic(d.topic)
         /\ d.payload = _connect_message)
            => <<"isUserAuthroizedForMachine", d.topic[Len(d.topic)]>>
                   \in d.fired

\* C28: every connect message received for machine m leads to a call of
\* isUserAuthroizedForMachine for m.
C28_ConnectDecides == [][C28_ConnectStep]_vars

\* The step deletes from the collection c at most one document, and only a
\* document whose key is id.
DeletesAtMostOne(c, cNew, key(_), id) ==
    /\ cNew \subseteq c
    /\ Cardinality(c \ cNew) <= 1
    /\ \A d \in c \ cNew : key(d) = id

C31_RemovalStep ==
    LET r == ret'
        role_key(d) == d.role_id
        type_key(d) == d.type_id
        machine_key(d) == d.machine_id
        maintenance_key(d) == d.maintenance_id
    IN  /\ r.op = "removeRole" =>
            /\ DeletesAtMostOne(roles, roles', role_key, r.role_id)
            /\ UNCHANGED <<machine_types, users, machines, uses,
                           maintenances, interventions>>
        /\ r.op = "removeMachineType" =>
            /\ DeletesAtMostOne(machine_types, machine_types', type_key,
                                r.type_id)
            /\ UNCHANGED <<roles, users, machines, uses, maintenances,
                           interventions>>
        /\ r.op = "removeMachine" =>
            /\ DeletesAtMostOne(machines, machines', machine_key,
                                r.machine_id)
            /\ UNCHANGED <<roles, machine_types, users, uses, maintenances,
                           interventions>>
        /\ r.op = "removeMaintenance" =>
            /\ DeletesAtMostOne(maintenances, maintenances',
                                maintenance_key, r.maintenance_id)
            /\ UNCHANGED <<roles, machine_types, users, machines, uses,
                           interventions>>

\* C31: removeRole, removeMachineType, removeMachine and removeMaintenance
\* delete at most the one document with the given id from their own
\* collection and leave every other document of every collection as it is,
\* so the references to the removed id stay.
C31_RemovalDoesNotCascade == [][C31_RemovalStep]_vars

\* After a removal: a user whose role, a machine whose type and whose
\* attached maintenance, and a use and an intervention whose machine are no
\* longer stored.
C31_Witness ==
    /\ ret.op \in {"removeRole", "removeMachineType", "removeMachine",
                   "removeMaintenance"}
    /\ \E i \in DOMAIN users : ~_validateRole(users[i].role_id)
    /\ \E m \in machines :
           /\ ~_validateMachineType(m.machine_type)
           /\ m.maintenances # NoSeq
           /\ \E k \in DOMAIN m.maintenances :
                  ~_validateMaintenance(m.maintenances[k])
    /\ \E i \in DOMAIN uses : ~_validateMachine(uses[i].machine_id)
    /\ \E i \in DOMAIN interventions :
           ~_validateMachine(interventions[i].machine_id)

\* The list of maintenance ids attached to a stored machine, the null list
\* read as the empty one.
Attached(machine_id) ==
    LET m == CHOOSE d \in machines : d.machine_id = machine_id
    IN  IF m.maintenances = NoSeq THEN <<>> ELSE m.maintenances

C32_DetachStep ==
    LET r == ret'
    IN  (/\ r.op = "removeMachineMaintenance"
         /\ _validateMachine(r.machine_id)
         /\ _validateMaintenance(r.maintenance_id))
            => IF Attached(r.machine_id) = <<>>
               THEN r.err = "InvalidId" /\ UNCHANGED store
               ELSE /\ r.err = "ok"
                    /\ machines' =
                           {IF m.machine_id = r.machine_id
                            THEN [m EXCEPT !.maintenances =
                                     SelectSeq(@, LAMBDA i :
                                                   i # r.maintenance_id)]
                            ELSE m : m \in machines}
                    /\ UNCHANGED <<roles, machine_types, users, uses,
                                   maintenances, interventions>>

\* C32: removeMachineMaintenance on a stored machine and a stored
\* maintenance fails with InvalidId and changes nothing when the machine has
\* no maintenance attached (its list is empty or was never set); otherwise
\* it takes the maintenance id out of the list of that machine only and
\* leaves the maintenance and every other machine as they are.
C32_DetachMaintenance == [][C32_DetachStep]_vars

\* C33: in every reachable state the user_id and the machine_id of every use
\* with a null end_timestamp are those of a stored user and a stored machine
\* (so that an endUse that closes it can be called), also after removeMachine
\* of a machine in use and after setUserId of a user with an active use.
C33_ActiveUseReferences ==
    \A i \in DOMAIN uses :
        uses[i].end_timestamp = None
            => /\ _validateUser(uses[i].user_id)
               /\ _validateMachine(uses[i].machine_id)

\* isUserAuthroizedForMachine returns True for the machine and the user in
\* the present state.
IsAuthorized(machine_id, user_id) ==
    /\ AuthorizedError(machine_id, user_id, NoCard) = "ok"
    /\ AuthorizedValue(machine_id, user_id)

C34_StartStep ==
    (ret'.op = "startUse" /\ Len(uses') > Len(uses))
        => IsAuthorized(uses'[Len(uses')].machine_id,
                        uses'[Len(uses')].user_id)

\* C34: every use that startUse stores is for a user and a machine for which
\* isUserAuthroizedForMachine was true in the store at the call; startUse by
\* a user who is not authorized for the machine stores no use.
C34_StartOnlyAuthorized == [][C34_StartStep]_vars

C35_InsertStep ==
    \A p \in Procs :
        (/\ calls[p].pc = "insert"
         /\ calls'[p].pc = "idle"
         /\ ActiveUses(calls[p].machine_id) = {}
         /\ \A q \in Procs \ {p} :
                calls[q].pc # "idle"
                    => calls[q].machine_id # calls[p].machine_id)
            => /\ ret'.err = "ok"
               /\ Len(uses') = Len(uses) + 1
               /\ \A i \in DOMAIN uses :
                      uses[i].use_id # uses'[Len(uses')].use_id

\* C35: two concurrent Adds that omit the id, here two startUse calls on two
\* different machines whose read of the highest use_id and whose insert are
\* separate steps, both succeed and get distinct ids; neither fails with a
\* duplicate-key error.
C35_ConcurrentAddsSucceed == [][C35_InsertStep]_vars

\* The maintenance ids that machines and interventions refer to.
ReferencedMaintenances ==
    UNION {{m.maintenances[k] : k \in DOMAIN m.maintenances} :
               m \in {d \in machines : d.maintenances # NoSeq}}
      \cup {interventions[i].maintenance_id : i \in DOMAIN interventions}

C36_AllocStep ==
    (/\ ret'.op = "addMaintenance"
     /\ ret'.maintenance_id = None
     /\ ret'.err = "ok")
        => ret'.new_id \notin ReferencedMaintenances

\* C36: an id that an Add assigns by itself is never one that a removed
\* document of the same kind held: a reference left dangling by a removal is
\* not bound again to a newly added document (here the maintenance ids that
\* machines and interventions refer to).
C36_NoIdReuse == [][C36_AllocStep]_vars

\* C37: in every reachable state no two users hold the same card_UUID that
\* is not null, so a card_UUID resolves to at most one user; addUser and
\* setUserCardUUID with a card another user holds make no second holder.
C37_CardHeldOnce ==
    \A c \in Cards : Cardinality(CardMatches(c)) <= 1

\* The user a call of endUse names: the user_id it passes, or the holder of
\* the card it passes when it passes no user_id.
C38_NamedUser(r) ==
    IF r.user_id # None THEN r.user_id ELSE _getUserIdFromCard(r.card_UUID)

C38_Closed == {i \in DOMAIN uses : uses'[i] # uses[i]}

\* C38: a successful endUse(machine, user) writes end_timestamp on exactly
\* one session, which before the call was active with that user_id and
\* machine_id, and leaves every other session and every other collection
\* as they were; afterwards the machine has no active session and startUse
\* on it succeeds for every stored user.
C38_EndStep ==
    (/\ ret'.op = "endUse"
     /\ ret'.err = "ok"
     /\ (ret'.user_id # None \/ ret'.card_UUID # NoCard))
    => /\ Len(uses') = Len(uses)
       /\ Cardinality(C38_Closed) = 1
       /\ \A i \in C38_Closed :
              /\ uses[i].end_timestamp = None
              /\ uses[i].user_id = C38_NamedUser(ret')
              /\ uses[i].machine_id = ret'.machine_id
              /\ uses'[i] = [uses[i] EXCEPT
                                !.end_timestamp = uses'[i].end_timestamp]
              /\ uses'[i].end_timestamp # None
       /\ UNCHANGED <<roles, machine_types, users, machines, maintenances,
                      interventions>>
       /\ (ActiveUses(ret.machine_id) = {})'
       /\ (\A j \in DOMAIN users :
              StartUseError(ret.machine_id, users[j].user_id, NoCard) = "ok")'

C38_EndUseClosesOne == [][C38_EndStep]_vars

\* The user a call of isUserAuthroizedForMachine names is stored.
C39_UserExists(r) ==
    IF r.user_id # None THEN _validateUser(r.user_id)
    ELSE r.card_UUID # NoCard /\ CardMatches(r.card_UUID) # {}

\* C39: for a stored user and a stored machine, in every reachable store
\* (also after removeRole of the user's role or removeMachineType of the
\* machine's type), isUserAuthroizedForMachine returns true or false, raises
\* nothing, and leaves every collection unchanged.
C39_AuthorizedStep ==
    (/\ ret'.op = "isAuthorized"
     /\ _validateMachine(ret'.machine_id)
     /\ C39_UserExists(ret'))
    => /\ ret'.err = "ok"
       /\ ret'.authorized \in BOOLEAN
       /\ UNCHANGED store

C39_AuthorizedNeverFails == [][C39_AuthorizedStep]_vars

====
